---- MODULE Spec2Model ----
(***************************************************************************)
(* The memory evolution engine of c4-memory: usefulness scoring, feedback, *)
(* pruning, restore and consolidation over the SQLite store.               *)
(*                                                                         *)
(* Representation.  Times are integer ticks, TicksPerDay ticks to a day    *)
(* (the code uses milliseconds).  Real-valued columns are fixed point:     *)
(* usefulness scores and the factors of the scorer in millionths (Scale),  *)
(* similarities and relationship strengths in thousandths (SimScale).      *)
(* A NULL parent_id is 0, a NULL last_decay is -1.                         *)
(***************************************************************************)
EXTENDS Integers, Sequences, FiniteSets, TLC

\* ------------------------------------------------------------------ bounds
MaxMem == 4          \* rows ever inserted into memories (AUTOINCREMENT ids 1..MaxMem)
MaxRemember == 2     \* memory_remember is called while fewer rows than this were inserted
MaxFeedback == 1     \* rows ever inserted into memory_feedback
MaxAccess == 2       \* cap on access_count
MaxTicks == 1        \* number of clock advances
NumRuns == 2         \* consolidate invocations that may be in flight
MaxEdgeSteps == 6    \* handler steps in one session of the relationship store
MaxSteps == 5        \* handler steps in one session
MaxCalls == 6        \* calls in one client's session
MaxSuggestSteps == 5 \* handler steps in one session of the suggestions
MaxOverlapSteps == 6 \* handler steps in one session with overlapping handlers

\* ------------------------------------------------- representation, constants
TicksPerDay == 2
Scale == 1000000
SimScale == 1000
RecentCutoff == 7            \* prune.ts: recentCutoff
HighImportance == 8          \* "importance < 8" / "m.importance >= 8"
DefaultScore == 5000000      \* usefulness_score REAL DEFAULT 5.0
MinScore == 1000000           \* Math.max(1.0, ...)
MaxScore == 9000000           \* Math.min(9.0, ...)
RecencyCapDays == 365
DefaultMinUsefulness == 2000000   \* input.minUsefulness ?? 2.0
DefaultMaxAge == 90               \* input.maxAge ?? 90
DefaultThreshold == 850           \* input.threshold ?? 0.85
MaxLevel == 3

NoParent == 0
NoDecay == 0 - 1

\* The inputs the operations are called with.
ImportanceChoices == {1, 8}
AdvanceChoices == {13, 181}                      \* 6.5 days, 90.5 days
MinUsefulnessChoices == {DefaultMinUsefulness, 10 * Scale}
MaxAgeChoices == {3, DefaultMaxAge}
FeedbackTypes == {"helpful", "unhelpful", "outdated", "incorrect"}
VA == <<3, 4>>
VC == <<5, 0>>
VecChoices == {VA, VC}
VQ == <<4, 3>>                  \* cosine 0.8 with VC
VR == <<4, 0 - 3>>              \* cosine 0.8 with VC, 0.28 with VQ
ClusterVecs == {VC, VQ, VR}
LowThreshold == 800
ClusterThresholds == {LowThreshold, DefaultThreshold}
ThresholdChoices == {DefaultThreshold}
DefaultCoAccess == 100          \* recordCoAccess: strength = 0.1
DefaultDecayFactor == 950       \* decayRelationshipStrengths: decayFactor = 0.95
DefaultMinStrength == 100       \* decayRelationshipStrengths: minStrength = 0.1
HalfFactor == 500               \* a decay factor of 0.5, whose square is exact
CoAccessChoices == {DefaultCoAccess, 6 * SimScale, 12 * SimScale}
DecayFactorChoices == {HalfFactor, DefaultDecayFactor}
MinStrengthChoices == {DefaultMinStrength}
DefaultLimit == 3               \* getSuggestedMemories: limit = 3
LimitChoices == {1, DefaultLimit}
RecallLimit == 10               \* recall: input.limit ?? 10
RecallLimits == {1, RecallLimit}
MinSimilarity == 300            \* recall: minSimilarity: 0.3

VARIABLES
    memories,        \* table memories: id -> row
    nextId,          \* AUTOINCREMENT of memories
    embeddings,      \* table embeddings: memory id -> vector
    feedbackLog,     \* table memory_feedback: set of rows
    nextFeedbackId,  \* AUTOINCREMENT of memory_feedback
    relationships,   \* table memory_relationships: set of rows
    nextRelId,       \* AUTOINCREMENT of memory_relationships
    openaiClient,    \* embeddings.ts: openaiClient !== null
    steps,           \* number of handler steps taken so far
    now,             \* Date.now(), in ticks
    ticks,           \* clock advances so far
    runs,            \* consolidate invocations: run id -> locals at the await
    result,          \* what the most recent handler returned
    request          \* the tool call being served, where a specification tracks it

vars == <<memories, nextId, embeddings, feedbackLog, nextFeedbackId,
          relationships, nextRelId, openaiClient, now, ticks, runs, result, steps,
          request>>

RunIds == 1..NumRuns
MemIds == DOMAIN memories

Min(a, b) == IF a < b THEN a ELSE b
Max(a, b) == IF a > b THEN a ELSE b

RECURSIVE SetMax(_)
SetMax(S) == LET x == CHOOSE y \in S : TRUE
             IN IF S = {x} THEN x ELSE Max(x, SetMax(S \ {x}))

\* floor(log2(n)) for n >= 1
RECURSIVE FloorLog2(_)
FloorLog2(n) == IF n < 2 THEN 0 ELSE 1 + FloorLog2(n \div 2)

\* floor(sqrt(n)) for n >= 0
RECURSIVE ISqrtFrom(_, _)
ISqrtFrom(n, r) == IF (r + 1) * (r + 1) > n THEN r ELSE ISqrtFrom(n, r + 1)
ISqrt(n) == ISqrtFrom(n, 0)

\* ------------------------------------------------------------------ scorer
\* x * y of two factors in millionths, without leaving 32 bits
MulScaled(x, y) == ((x \div 1000) * y) \div 1000 + ((x % 1000) * y) \div Scale

\* 0.98^d in millionths, d whole days
RECURSIVE Pow98(_)
Pow98(d) ==
    IF d = 0 THEN Scale
    ELSE LET h == Pow98(d \div 2)
             sq == MulScaled(h, h)
         IN IF d % 2 = 1 THEN (sq * 98) \div 100 ELSE sq

\* 0.98^0.5, the factor of half a day
SqrtDecay == 989949

\* Math.pow(0.98, Math.min(daysSinceAccess, 365)), the age given in ticks
RecencyBoost(ageTicks) ==
    LET t == Min(ageTicks, RecencyCapDays * TicksPerDay)
        whole == Pow98(t \div TicksPerDay)
    IN IF t % TicksPerDay = 0 THEN whole ELSE MulScaled(whole, SqrtDecay)

\* Math.log(n) in millionths
LnTable == <<0, 693147, 1098612, 1386294, 1609438, 1791759, 1945910,
             2079442, 2197225, 2302585, 2397895, 2484907>>
Ln(n) == LnTable[Min(n, Len(LnTable))]

\* the plain share of helpful votes, 0 when there are none
HelpfulRatio_NoPrior(h, u) == IF h + u = 0 THEN 0 ELSE (h * Scale) \div (h + u)

HelpfulRatio(h, u) == ((h + 1) * Scale) \div (h + u + 2)

AccessBoost(c) == Ln(c + 1) \div 10

\* the weighted factors without the constant 0.5
RawScore_NoBase(importance, h, u, ageTicks, c) ==
    importance * ((HelpfulRatio(h, u) * 3) \div 10
                  + (RecencyBoost(ageTicks) * 15) \div 100
                  + (AccessBoost(c) * 5) \div 100)

RawScore(importance, h, u, ageTicks, c) ==
    importance * (Scale \div 2
                  + (HelpfulRatio(h, u) * 3) \div 10
                  + (RecencyBoost(ageTicks) * 15) \div 100
                  + (AccessBoost(c) * 5) \div 100)

\* the score written as computed, without Math.min / Math.max
Clamp_None(x) == x

\* Math.min(9.0, Math.max(1.0, x))
Clamp(x) == Min(MaxScore, Max(MinScore, x))

UsefulnessScore(importance, h, u, ageTicks, c) ==
    Clamp(RawScore(importance, h, u, ageTicks, c))

\* updateUsefulnessScore: an id that does not resolve changes nothing
UpdateUsefulnessScore(mems, t, id) ==
    IF id \notin DOMAIN mems THEN mems
    ELSE LET m == mems[id]
         IN [mems EXCEPT ![id].usefulnessScore =
                 UsefulnessScore(m.importance, m.timesHelpful, m.timesUnhelpful,
                                 t - m.accessedAt, m.accessCount),
                         ![id].lastDecay = t]

\* ------------------------------------------------------------- store rows
NewRow(importance, t) ==
    [importance |-> importance, usefulnessScore |-> DefaultScore,
     timesHelpful |-> 0, timesUnhelpful |-> 0,
     accessedAt |-> t, accessCount |-> 0,
     status |-> "active", parentId |-> NoParent, level |-> 1,
     lastDecay |-> NoDecay]

\* INSERT INTO memories
CreateMemory(mems, id, importance, t) ==
    [i \in DOMAIN mems \cup {id} |-> IF i = id THEN NewRow(importance, t) ELSE mems[i]]

\* UPDATE memories SET accessed_at = now, access_count = access_count + 1
UpdateMemoryAccess(mems, t, id) ==
    IF id \notin DOMAIN mems THEN mems
    ELSE [mems EXCEPT ![id].accessedAt = t, ![id].accessCount = @ + 1]

\* UPDATE memories SET status = ?, parent_id = ? WHERE id = ?
UpdateMemoryStatus(mems, id, status, parentId) ==
    IF id \notin DOMAIN mems THEN mems
    ELSE [mems EXCEPT ![id].status = status, ![id].parentId = parentId]

\* DELETE FROM memories WHERE id = ?; parent_id ... ON DELETE SET NULL
DeleteMemoryRow(mems, id) ==
    [i \in DOMAIN mems \ {id} |->
        IF mems[i].parentId = id THEN [mems[i] EXCEPT !.parentId = NoParent]
        ELSE mems[i]]

\* embeddings.memory_id ... ON DELETE CASCADE
DeleteEmbeddingRow(embs, id) == [i \in DOMAIN embs \ {id} |-> embs[i]]

\* memory_feedback.memory_id ... ON DELETE CASCADE
DeleteFeedbackRows(log, id) == {f \in log : f.memoryId # id}

\* memory_relationships.source_id / target_id ... ON DELETE CASCADE
\* the cascade on source_id alone
DeleteRelationshipRows_OutgoingOnly(rels, id) ==
    {e \in rels : e.sourceId # id}

DeleteRelationshipRows(rels, id) == {r \in rels : r.sourceId # id /\ r.targetId # id}

DaysSinceAccess(t, accessedAt) == (t - accessedAt) \div TicksPerDay

IdleRun == [pc |-> "idle", clusters |-> <<>>, k |-> 0, newId |-> 0,
            created |-> <<>>, warnings |-> {}]

AllIdle == \A r \in RunIds : runs[r].pc = "idle"

\* -------------------------------------------------------------------- Init
Init ==
    /\ memories = <<>>
    /\ nextId = 1
    /\ embeddings = <<>>
    /\ feedbackLog = {}
    /\ nextFeedbackId = 1
    /\ relationships = {}
    /\ nextRelId = 1
    /\ openaiClient \in BOOLEAN   \* loadConfig calls initOpenAI iff a key is configured
    /\ now = 0
    /\ ticks = 0
    /\ runs = [r \in RunIds |-> IdleRun]
    /\ result = [op |-> "none"]
    /\ steps = 0
    /\ request = [op |-> "none"]

\* ------------------------------------------------------------ cosine, clusters
Dot(a, b) == a[1] * b[1] + a[2] * b[2]

\* cosineSimilarity in thousandths; 0 when a magnitude is 0
CosineSimilarity(a, b) ==
    LET mag == ISqrt(Dot(a, a) * Dot(b, b))
    IN IF mag = 0 THEN 0 ELSE (Dot(a, b) * SimScale) \div mag

\* queryMemories: ORDER BY usefulness_score DESC, importance DESC, accessed_at DESC
\* (rows equal in all three come in rowid order)
Before(mems, a, b) ==
    LET x == mems[a]
        y == mems[b]
    IN \/ x.usefulnessScore > y.usefulnessScore
       \/ /\ x.usefulnessScore = y.usefulnessScore
          /\ \/ x.importance > y.importance
             \/ /\ x.importance = y.importance
                /\ \/ x.accessedAt > y.accessedAt
                   \/ x.accessedAt = y.accessedAt /\ a < b

RECURSIVE SortIds(_, _)
SortIds(mems, S) ==
    IF S = {} THEN <<>>
    ELSE LET first == CHOOSE a \in S : \A b \in S \ {a} : Before(mems, a, b)
         IN <<first>> \o SortIds(mems, S \ {first})

\* consolidate: queryMemories({includeArchived: false}).filter(m => m.level === 1)
Candidates(mems) ==
    SortIds(mems, {i \in DOMAIN mems : mems[i].status = "active" /\ mems[i].level = 1})

SeqToSet(s) == {s[i] : i \in 1..Len(s)}

\* the inner loop without its test of assigned
RECURSIVE Similar_Reassign(_, _, _, _, _, _)
Similar_Reassign(embs, order, assigned, anchor, threshold, i) ==
    IF i > Len(order) THEN <<>>
    ELSE LET o == order[i]
             rest == Similar_Reassign(embs, order, assigned, anchor, threshold, i + 1)
         IN IF /\ o # anchor
               /\ o \in DOMAIN embs
               /\ CosineSimilarity(embs[anchor], embs[o]) >= threshold
            THEN <<o>> \o rest
            ELSE rest

\* the inner loop of findSimilarClusters: the still unassigned candidates similar
\* to the anchor, in candidate order
RECURSIVE Similar(_, _, _, _, _, _)
Similar(embs, order, assigned, anchor, threshold, i) ==
    IF i > Len(order) THEN <<>>
    ELSE LET o == order[i]
             rest == Similar(embs, order, assigned, anchor, threshold, i + 1)
         IN IF /\ o \notin assigned
               /\ o # anchor
               /\ o \in DOMAIN embs
               /\ CosineSimilarity(embs[anchor], embs[o]) >= threshold
            THEN <<o>> \o rest
            ELSE rest

\* sum of cosineSimilarity over the pairs i < j of a cluster
RECURSIVE PairSimSum(_, _, _, _)
PairSimSum(embs, members, i, j) ==
    IF i >= Len(members) THEN 0
    ELSE IF j > Len(members) THEN PairSimSum(embs, members, i + 1, i + 2)
    ELSE CosineSimilarity(embs[members[i]], embs[members[j]])
         + PairSimSum(embs, members, i, j + 1)

\* the similarity of the first pair alone
AverageSimilarity_FirstPair(embs, members) ==
    IF Len(members) >= 2
    THEN CosineSimilarity(embs[members[1]], embs[members[2]])
    ELSE 0

AverageSimilarity(embs, members) ==
    LET n == Len(members)
        pairCount == (n * (n - 1)) \div 2
    IN IF pairCount > 0 THEN PairSimSum(embs, members, 1, 2) \div pairCount ELSE 0

\* max + boost without the cap
CombinedImportance_Uncapped(mems, members) ==
    SetMax({mems[m].importance : m \in SeqToSet(members)}) + FloorLog2(Len(members))

CombinedImportance(mems, members) ==
    Min(9, SetMax({mems[m].importance : m \in SeqToSet(members)})
           + FloorLog2(Len(members)))

\* the abstraction put at its sources' level
NewLevel_SameLevel(mems, members) ==
    Min(MaxLevel, SetMax({mems[m].level : m \in SeqToSet(members)}))

\* newLevel = Math.min(3, sourceLevel + 1), from the rows as read by the query
NewLevel(mems, members) ==
    Min(MaxLevel, SetMax({mems[m].level : m \in SeqToSet(members)}) + 1)

MakeCluster(mems, embs, members) ==
    [members |-> members,
     averageSimilarity |-> AverageSimilarity(embs, members),
     combinedImportance |-> CombinedImportance(mems, members),
     newLevel |-> NewLevel(mems, members)]

\* findSimilarClusters: greedy, anchor by anchor in candidate order
RECURSIVE FindSimilarClusters(_, _, _, _, _, _)
FindSimilarClusters(mems, embs, order, threshold, assigned, i) ==
    IF i > Len(order) THEN <<>>
    ELSE LET a == order[i]
         IN IF a \in assigned \/ a \notin DOMAIN embs
            THEN FindSimilarClusters(mems, embs, order, threshold, assigned, i + 1)
            ELSE LET members == <<a>> \o Similar(embs, order, assigned, a, threshold, 1)
                     rest == FindSimilarClusters(mems, embs, order, threshold,
                                                 assigned \cup SeqToSet(members), i + 1)
                 IN IF Len(members) >= 2
                    THEN <<MakeCluster(mems, embs, members)>> \o rest
                    ELSE rest

\* --------------------------------------------------------------- pruning
\* getLowUsefulnessMemories: the WHERE clause (LIMIT 200 is above MaxMem)
GetLowUsefulnessMemories(mems, t, maxUsefulness, maxDays) ==
    {i \in DOMAIN mems :
        /\ mems[i].status = "active"
        /\ mems[i].usefulnessScore < maxUsefulness
        /\ mems[i].accessedAt < t - maxDays * TicksPerDay
        /\ mems[i].importance < HighImportance}

\* prune: the safety filter and its warnings
HighImportanceSkipped(mems, cands) ==
    {i \in cands : mems[i].importance >= HighImportance}

RecentlyAccessedSkipped(mems, t, cands) ==
    {i \in cands : /\ mems[i].importance < HighImportance
                   /\ DaysSinceAccess(t, mems[i].accessedAt) < RecentCutoff}

\* the safety filter without its recency rule
SafeMemories_NoRecency(mems, t, cands) ==
    cands \ HighImportanceSkipped(mems, cands)

SafeMemories(mems, t, cands) ==
    (cands \ HighImportanceSkipped(mems, cands)) \ RecentlyAccessedSkipped(mems, t, cands)

PruneWarnings(mems, t, cands) ==
    LET w == {<<"high-importance", i>> : i \in HighImportanceSkipped(mems, cands)}
             \cup {<<"recently-accessed", i>> : i \in RecentlyAccessedSkipped(mems, t, cands)}
    IN IF SafeMemories(mems, t, cands) = {} /\ w = {} THEN {<<"none-eligible", 0>>} ELSE w

\* evolve --prune: candidates.filter(days >= recentCutoff)
EvolveToPrune(mems, t) ==
    {i \in GetLowUsefulnessMemories(mems, t, DefaultMinUsefulness, DefaultMaxAge) :
        DaysSinceAccess(t, mems[i].accessedAt) >= RecentCutoff}

\* deleteMemory(db, id) with the schema's ON DELETE actions, on the four tables
DeleteMemory(store, id) ==
    [mems |-> DeleteMemoryRow(store.mems, id),
     embs |-> DeleteEmbeddingRow(store.embs, id),
     log |-> DeleteFeedbackRows(store.log, id),
     rels |-> DeleteRelationshipRows(store.rels, id)]

RECURSIVE DeleteMemories(_, _)
DeleteMemories(store, S) ==
    IF S = {} THEN store
    ELSE LET i == CHOOSE x \in S : TRUE
         IN DeleteMemories(DeleteMemory(store, i), S \ {i})

\* archiving that removes the rows
ArchiveAll_AsDelete(mems, S) ==
    [i \in DOMAIN mems \ S |-> mems[i]]

\* prune: updateMemoryStatus(db, memory.id, 'archived') for each selected memory
RECURSIVE ArchiveAll(_, _)
ArchiveAll(mems, S) ==
    IF S = {} THEN mems
    ELSE LET i == CHOOSE x \in S : TRUE
         IN ArchiveAll(UpdateMemoryStatus(mems, i, "archived", NoParent), S \ {i})

\* evolve --prune: UPDATE memories SET status = 'archived' WHERE id = ?
EvolveArchiveAll(mems, S) ==
    [i \in DOMAIN mems |->
        IF i \in S THEN [mems[i] EXCEPT !.status = "archived"] ELSE mems[i]]

\* ----------------------------------------------------------------- actions
\* time passes
Tick(d) ==
    /\ ticks < MaxTicks
    /\ now' = now + d
    /\ ticks' = ticks + 1
    /\ result' = [op |-> "none"]
    /\ UNCHANGED <<memories, nextId, embeddings, feedbackLog, nextFeedbackId,
                   relationships, nextRelId, openaiClient, runs>>

\* memory_config with an API key: initOpenAI
InitOpenAI ==
    /\ ~openaiClient
    /\ openaiClient' = TRUE
    /\ result' = [op |-> "none"]
    /\ UNCHANGED <<memories, nextId, embeddings, feedbackLog, nextFeedbackId,
                   relationships, nextRelId, now, ticks, runs>>

StoreEmbedding(embs, id, vec) ==
    [i \in DOMAIN embs \cup {id} |-> IF i = id THEN vec ELSE embs[i]]

\* memory_remember: createMemory, then embedMemory when a key is configured
Remember(importance, vec) ==
    /\ nextId <= MaxRemember
    /\ memories' = CreateMemory(memories, nextId, importance, now)
    /\ nextId' = nextId + 1
    /\ embeddings' = IF openaiClient THEN StoreEmbedding(embeddings, nextId, vec)
                     ELSE embeddings
    /\ result' = [op |-> "none"]
    /\ UNCHANGED <<feedbackLog, nextFeedbackId, relationships, nextRelId,
                   openaiClient, now, ticks, runs>>

\* getMemory(id): the row as read, then the access update
GetMemory(id) ==
    /\ id \in MemIds => memories[id].accessCount < MaxAccess
    /\ memories' = UpdateMemoryAccess(memories, now, id)
    /\ result' = IF id \in MemIds
                 THEN [op |-> "getMemory", found |-> TRUE, status |-> memories[id].status]
                 ELSE [op |-> "getMemory", found |-> FALSE]
    /\ UNCHANGED <<nextId, embeddings, feedbackLog, nextFeedbackId,
                   relationships, nextRelId, openaiClient, now, ticks, runs>>

\* the counter updates with 'incorrect' left out of the second test
CountFeedback_IncorrectIgnored(mems, id, feedbackType) ==
    IF id \notin DOMAIN mems THEN mems
    ELSE IF feedbackType = "helpful"
         THEN [mems EXCEPT ![id].timesHelpful = @ + 1]
    ELSE IF feedbackType = "unhelpful"
         THEN [mems EXCEPT ![id].timesUnhelpful = @ + 1]
    ELSE mems

\* the counter updates with an unhelpful vote taking back a helpful one
CountFeedback_NetVotes(mems, id, feedbackType) ==
    IF id \notin DOMAIN mems THEN mems
    ELSE IF feedbackType = "helpful"
         THEN [mems EXCEPT ![id].timesHelpful = @ + 1]
    ELSE IF feedbackType \in {"unhelpful", "incorrect"}
         THEN [mems EXCEPT ![id].timesHelpful = @ - 1]
    ELSE mems

\* recordFeedback: the two counter updates
CountFeedback(mems, id, feedbackType) ==
    IF id \notin DOMAIN mems THEN mems
    ELSE IF feedbackType = "helpful"
         THEN [mems EXCEPT ![id].timesHelpful = @ + 1]
    ELSE IF feedbackType \in {"unhelpful", "incorrect"}
         THEN [mems EXCEPT ![id].timesUnhelpful = @ + 1]
    ELSE mems

\* recordFeedback after its INSERT: counters, then the score
ApplyFeedback(mems, t, id, feedbackType) ==
    UpdateUsefulnessScore(CountFeedback(mems, id, feedbackType), t, id)

FeedbackRow(fid, id, feedbackType, t) ==
    [id |-> fid, memoryId |-> id, feedbackType |-> feedbackType, timestamp |-> t]

\* recordFeedback on a connection without PRAGMA foreign_keys = ON: the INSERT
\* of a row for an id that is not in memories succeeds
RecordFeedback_NoForeignKeys(id, feedbackType) ==
    /\ nextFeedbackId <= MaxFeedback
    /\ feedbackLog' = feedbackLog \cup {FeedbackRow(nextFeedbackId, id, feedbackType, now)}
    /\ nextFeedbackId' = nextFeedbackId + 1
    /\ memories' = ApplyFeedback(memories, now, id, feedbackType)
    /\ result' = [op |-> "recordFeedback", error |-> "none"]
    /\ UNCHANGED <<nextId, embeddings, relationships, nextRelId, openaiClient,
                   now, ticks, runs>>

\* recordFeedback(db, memoryId, feedbackType): with foreign keys on, the INSERT
\* of a row for an id that is not in memories throws before anything is written
RecordFeedback(id, feedbackType) ==
    IF id \in MemIds
    THEN /\ nextFeedbackId <= MaxFeedback
         /\ feedbackLog' = feedbackLog \cup {FeedbackRow(nextFeedbackId, id, feedbackType, now)}
         /\ nextFeedbackId' = nextFeedbackId + 1
         /\ memories' = ApplyFeedback(memories, now, id, feedbackType)
         /\ result' = [op |-> "recordFeedback", error |-> "none"]
         /\ UNCHANGED <<nextId, embeddings, relationships, nextRelId, openaiClient,
                        now, ticks, runs>>
    ELSE /\ result' = [op |-> "recordFeedback", error |-> "FOREIGN KEY constraint failed"]
         /\ UNCHANGED <<memories, nextId, embeddings, feedbackLog, nextFeedbackId,
                        relationships, nextRelId, openaiClient, now, ticks, runs>>

\* memory_feedback for one id: getMemory, recordFeedback, getMemory
Feedback(id, feedbackType) ==
    IF id \in MemIds
    THEN /\ nextFeedbackId <= MaxFeedback
         /\ memories[id].accessCount + 2 <= MaxAccess
         /\ LET scored == ApplyFeedback(UpdateMemoryAccess(memories, now, id),
                                        now, id, feedbackType)
            IN /\ memories' = UpdateMemoryAccess(scored, now, id)
               /\ result' = [op |-> "feedback", success |-> TRUE, feedbackRecorded |-> 1,
                             newUsefulnessScore |-> scored[id].usefulnessScore,
                             warnings |-> {}]
         /\ feedbackLog' = feedbackLog \cup {FeedbackRow(nextFeedbackId, id, feedbackType, now)}
         /\ nextFeedbackId' = nextFeedbackId + 1
         /\ UNCHANGED <<nextId, embeddings, relationships, nextRelId, openaiClient,
                        now, ticks, runs>>
    ELSE /\ result' = [op |-> "feedback", success |-> TRUE, feedbackRecorded |-> 0,
                       warnings |-> {<<"not-found", id>>}]
         /\ UNCHANGED <<memories, nextId, embeddings, feedbackLog, nextFeedbackId,
                        relationships, nextRelId, openaiClient, now, ticks, runs>>

RECURSIVE ScoreAll(_, _, _)
ScoreAll(mems, t, S) ==
    IF S = {} THEN mems
    ELSE LET i == CHOOSE x \in S : TRUE
         IN ScoreAll(UpdateUsefulnessScore(mems, t, i), t, S \ {i})

\* the SELECT without its WHERE clause
ActiveIds_AnyStatus(mems) == DOMAIN mems

\* SELECT id FROM memories WHERE status = 'active'
ActiveIds(mems) == {i \in DOMAIN mems : mems[i].status = "active"}

\* applyDecayToAll
ApplyDecayToAll ==
    /\ memories' = ScoreAll(memories, now, ActiveIds(memories))
    /\ result' = [op |-> "none"]
    /\ UNCHANGED <<nextId, embeddings, feedbackLog, nextFeedbackId,
                   relationships, nextRelId, openaiClient, now, ticks, runs>>

\* evolve --decay: the same formula inline, written unless --dry-run
EvolveDecay(dryRun) ==
    /\ memories' = IF dryRun THEN memories
                   ELSE [i \in DOMAIN memories |->
                           IF memories[i].status = "active"
                           THEN [memories[i] EXCEPT
                                   !.usefulnessScore =
                                       Min(MaxScore, Max(MinScore,
                                           RawScore(memories[i].importance,
                                                    memories[i].timesHelpful,
                                                    memories[i].timesUnhelpful,
                                                    now - memories[i].accessedAt,
                                                    memories[i].accessCount))),
                                   !.lastDecay = now]
                           ELSE memories[i]]
    /\ result' = [op |-> "none"]
    /\ UNCHANGED <<nextId, embeddings, feedbackLog, nextFeedbackId,
                   relationships, nextRelId, openaiClient, now, ticks, runs>>

\* prune without its dryRun return
PruneIsLive_NoDryRun(safe, dryRun) == safe # {}

\* prune: something was selected and dryRun is off
PruneIsLive(safe, dryRun) == safe # {} /\ ~dryRun

\* memory_prune
Prune(minUsefulness, maxAge, permanent, dryRun) ==
    LET cands == GetLowUsefulnessMemories(memories, now, minUsefulness, maxAge)
        safe == SafeMemories(memories, now, cands)
        live == PruneIsLive(safe, dryRun)
        store == [mems |-> memories, embs |-> embeddings,
                  log |-> feedbackLog, rels |-> relationships]
        after == IF ~live THEN store
                 ELSE IF permanent THEN DeleteMemories(store, safe)
                 ELSE [store EXCEPT !.mems = ArchiveAll(memories, safe)]
    IN /\ memories' = after.mems
       /\ embeddings' = after.embs
       /\ feedbackLog' = after.log
       /\ relationships' = after.rels
       /\ result' = [op |-> "prune", dryRun |-> dryRun, pruned |-> safe,
                     warnings |-> PruneWarnings(memories, now, cands)]
       /\ UNCHANGED <<nextId, nextFeedbackId, nextRelId, openaiClient, now, ticks, runs>>

\* evolve --prune
EvolvePrune(dryRun) ==
    LET toPrune == EvolveToPrune(memories, now)
    IN /\ memories' = IF dryRun THEN memories ELSE EvolveArchiveAll(memories, toPrune)
       /\ result' = [op |-> "evolvePrune", dryRun |-> dryRun, pruned |-> toPrune]
       /\ UNCHANGED <<nextId, embeddings, feedbackLog, nextFeedbackId,
                      relationships, nextRelId, openaiClient, now, ticks, runs>>

\* a restore that reads the memory through getMemory first
RestoreArchivedMemory_Touch(id) ==
    /\ memories' = UpdateMemoryStatus(UpdateMemoryAccess(memories, now, id),
                                      id, "active", NoParent)
    /\ result' = [op |-> "none"]
    /\ UNCHANGED <<nextId, embeddings, feedbackLog, nextFeedbackId,
                   relationships, nextRelId, openaiClient, now, ticks, runs>>

\* restoreArchivedMemory(db, memoryId)
RestoreArchivedMemory(id) ==
    /\ memories' = UpdateMemoryStatus(memories, id, "active", NoParent)
    /\ result' = [op |-> "none"]
    /\ UNCHANGED <<nextId, embeddings, feedbackLog, nextFeedbackId,
                   relationships, nextRelId, openaiClient, now, ticks, runs>>

\* memory_forget with ids: deleteMemory, then deleteEmbedding, for one id
Forget(id) ==
    LET store == [mems |-> memories, embs |-> embeddings,
                  log |-> feedbackLog, rels |-> relationships]
        after == IF id \in MemIds THEN DeleteMemory(store, id) ELSE store
    IN /\ memories' = after.mems
       /\ embeddings' = after.embs
       /\ feedbackLog' = after.log
       /\ relationships' = after.rels
       /\ result' = [op |-> "forget", deletedIds |-> {id} \cap MemIds]
       /\ UNCHANGED <<nextId, nextFeedbackId, nextRelId, openaiClient, now, ticks, runs>>

\* ------------------------------------------------------------ consolidation
CreateRelationship(rels, rid, sourceId, targetId, relationship, strength) ==
    rels \cup {[id |-> rid, sourceId |-> sourceId, targetId |-> targetId,
                relationship |-> relationship, strength |-> strength]}

\* createMemory for a cluster's abstraction, then UPDATE memories SET level = ?
CreateAbstraction(mems, id, cluster, t) ==
    [CreateMemory(mems, id, cluster.combinedImportance, t) EXCEPT
        ![id].level = cluster.newLevel]

\* the loop over cluster.memories: updateMemoryStatus, then createRelationship.
\* With foreign keys on, a parent_id or a relationship end that is not a row of
\* memories makes the statement throw: the loop stops there (failed).
RECURSIVE LinkSources(_, _, _, _, _)
LinkSources(st, members, newId, strength, i) ==
    IF i > Len(members) THEN st
    ELSE LET src == members[i]
         IN IF src \in DOMAIN st.mems /\ newId \notin DOMAIN st.mems
            THEN [st EXCEPT !.failed = TRUE]
            ELSE IF src \notin DOMAIN st.mems
            THEN [st EXCEPT !.failed = TRUE]
            ELSE LinkSources(
                    [mems |-> UpdateMemoryStatus(st.mems, src, "consolidated", newId),
                     rels |-> CreateRelationship(st.rels, st.nextRel, src, newId,
                                                 "derived_from", strength),
                     nextRel |-> st.nextRel + 1,
                     failed |-> FALSE],
                    members, newId, strength, i + 1)

\* the return without its warnings
ConsolidateResult_NoWarnings(success, dryRun, clusters, abstractions, warnings) ==
    [op |-> "consolidate", success |-> success, dryRun |-> dryRun,
     clustersFound |-> Len(clusters),
     abstractionsCreated |-> abstractions,
     warnings |-> {}]

ConsolidateResult(success, dryRun, clusters, abstractions, warnings) ==
    [op |-> "consolidate", success |-> success, dryRun |-> dryRun,
     clustersFound |-> Len(clusters),
     abstractionsCreated |-> abstractions,
     warnings |-> warnings]

\* the dry-run return without its clusters field
DryRunResult_CountOnly(clusters, abstractions) ==
    [op |-> "consolidate", success |-> TRUE, dryRun |-> TRUE,
     clustersFound |-> Len(clusters),
     abstractionsCreated |-> abstractions,
     warnings |-> {},
     clusters |-> <<>>]

\* the dry-run return: the counts, the placeholder abstractions and the clusters
DryRunResult(clusters, abstractions) ==
    [op |-> "consolidate", success |-> TRUE, dryRun |-> TRUE,
     clustersFound |-> Len(clusters),
     abstractionsCreated |-> abstractions,
     warnings |-> {},
     clusters |-> clusters]

\* abstractionsCreated of a dry run: placeholder ids, level 2
DryRunAbstractions(clusters) ==
    [i \in 1..Len(clusters) |->
        [id |-> 0 - i, level |-> 2, sourceCount |-> Len(clusters[i].members),
         combinedImportance |-> clusters[i].combinedImportance]]

\* memory_consolidate up to its first await (embedMemory of the first abstraction),
\* or to its return when nothing is to be written
ConsolidateStart(r, threshold, dryRun) ==
    LET cands == Candidates(memories)
        clusters == FindSimilarClusters(memories, embeddings, cands, threshold, {}, 1)
        writes == openaiClient /\ Len(cands) >= 2 /\ clusters # <<>> /\ ~dryRun
    IN /\ runs[r].pc = "idle"
       /\ \A q \in RunIds : q < r => runs[q].pc # "idle"
       /\ writes => nextId + Len(clusters) - 1 <= MaxMem
       /\ IF writes
          THEN /\ memories' = CreateAbstraction(memories, nextId, clusters[1], now)
               /\ nextId' = nextId + 1
               /\ runs' = [runs EXCEPT ![r] = [pc |-> "await", clusters |-> clusters,
                                               k |-> 1, newId |-> nextId,
                                               created |-> <<>>, warnings |-> {}]]
               /\ result' = [op |-> "pending"]
          ELSE /\ result' =
                    IF ~openaiClient
                    THEN ConsolidateResult(FALSE, dryRun, <<>>, <<>>, {"embeddings-unavailable"})
                    ELSE IF Len(cands) < 2
                    THEN ConsolidateResult(TRUE, dryRun, <<>>, <<>>, {"not-enough-memories"})
                    ELSE IF clusters = <<>>
                    THEN ConsolidateResult(TRUE, dryRun, <<>>, <<>>, {"no-clusters"})
                    ELSE DryRunResult(clusters, DryRunAbstractions(clusters))
               /\ UNCHANGED <<memories, nextId, runs>>
       /\ UNCHANGED <<embeddings, feedbackLog, nextFeedbackId, relationships,
                      nextRelId, openaiClient, now, ticks>>

NoVec == <<0, 0>>

\* memory_consolidate from the return of embedMemory (vec, or NoVec when the
\* call threw) to the next await or to its return
ConsolidateResume(r, vec) ==
    LET run == runs[r]
        cluster == run.clusters[run.k]
        embedded == vec # NoVec /\ run.newId \in MemIds
        warnings == IF embedded THEN run.warnings
                    ELSE run.warnings \cup {<<"embed-failed", run.newId>>}
        linked == LinkSources([mems |-> memories, rels |-> relationships,
                               nextRel |-> nextRelId, failed |-> FALSE],
                              cluster.members, run.newId, cluster.averageSimilarity, 1)
        created == Append(run.created,
                          [id |-> run.newId, level |-> cluster.newLevel,
                           sourceCount |-> Len(cluster.members),
                           combinedImportance |-> cluster.combinedImportance])
        more == ~linked.failed /\ run.k < Len(run.clusters)
    IN /\ run.pc = "await"
       /\ vec # NoVec => openaiClient
       /\ embeddings' = IF embedded THEN StoreEmbedding(embeddings, run.newId, vec)
                        ELSE embeddings
       /\ relationships' = linked.rels
       /\ nextRelId' = linked.nextRel
       /\ IF more
          THEN /\ memories' = CreateAbstraction(linked.mems, nextId,
                                                run.clusters[run.k + 1], now)
               /\ nextId' = nextId + 1
               /\ runs' = [runs EXCEPT ![r] = [run EXCEPT !.k = @ + 1, !.newId = nextId,
                                                          !.created = created,
                                                          !.warnings = warnings]]
               /\ result' = [op |-> "pending"]
          ELSE /\ memories' = linked.mems
               /\ nextId' = nextId
               /\ runs' = [runs EXCEPT ![r] = IdleRun]
               /\ result' = IF linked.failed
                            THEN [op |-> "consolidate", success |-> FALSE,
                                  error |-> "FOREIGN KEY constraint failed"]
                            ELSE ConsolidateResult(TRUE, FALSE, run.clusters, created, warnings)
       /\ UNCHANGED <<feedbackLog, nextFeedbackId, openaiClient, now, ticks>>

\* -------------------------------------------------------------- co-access
MaxStrength == 10 * SimScale

\* a SELECT that matches no row
SimilarEdges_None(rels, sourceId, targetId) == {}

\* the rows the SELECT of recordCoAccess matches
SimilarEdges(rels, sourceId, targetId) ==
    {e \in rels : /\ e.sourceId = sourceId
                  /\ e.targetId = targetId
                  /\ e.relationship = "similar"}

\* the pair as stored, written in the order given
PairAsStored_AsGiven(x, y) == <<x, y>>

\* recordCoAccess: [sourceId, targetId] = the smaller id first
PairAsStored(x, y) == IF x < y THEN <<x, y>> ELSE <<y, x>>

\* recordCoAccess: one pair, strengthened (cap at 10) or created
TouchPair(st, x, y, strength) ==
    LET pair == PairAsStored(x, y)
        found == SimilarEdges(st.rels, pair[1], pair[2])
    IN IF found # {}
       THEN LET existing == CHOOSE e \in found : \A o \in found : e.id <= o.id
            IN [st EXCEPT !.rels = (@ \ {existing}) \cup
                    {[existing EXCEPT !.strength = Min(MaxStrength, @ + strength)]}]
       ELSE [rels |-> CreateRelationship(st.rels, st.nextRel, pair[1], pair[2],
                                         "similar", strength),
             nextRel |-> st.nextRel + 1]

\* recordCoAccess: the loops over i < j
RECURSIVE CoAccessPairs(_, _, _, _, _)
CoAccessPairs(st, ids, strength, i, j) ==
    IF i > Len(ids) THEN st
    ELSE IF j > Len(ids) THEN CoAccessPairs(st, ids, strength, i + 1, i + 2)
    ELSE CoAccessPairs(TouchPair(st, ids[i], ids[j], strength), ids, strength, i, j + 1)

\* recordCoAccess(db, memoryIds, strength), for ids that are rows of memories
RecordCoAccess(ids, strength) ==
    LET after == IF Len(ids) < 2
                 THEN [rels |-> relationships, nextRel |-> nextRelId]
                 ELSE CoAccessPairs([rels |-> relationships, nextRel |-> nextRelId],
                                    ids, strength, 1, 2)
    IN /\ SeqToSet(ids) \subseteq MemIds
       /\ relationships' = after.rels
       /\ nextRelId' = after.nextRel
       /\ result' = [op |-> "none"]
       /\ UNCHANGED <<memories, nextId, embeddings, feedbackLog, nextFeedbackId,
                      openaiClient, now, ticks, runs>>

\* the UPDATE without its WHERE clause
DecayedStrength_Unguarded(strength, factor, minStrength) ==
    (strength * factor) \div SimScale

\* the UPDATE of decayRelationshipStrengths: strength * ? WHERE strength > ?
DecayedStrength(strength, factor, minStrength) ==
    IF strength > minStrength THEN (strength * factor) \div SimScale ELSE strength

\* decayRelationshipStrengths: the UPDATE, then DELETE WHERE strength < ?
DecayEdges(rels, factor, minStrength) ==
    {e \in {[r EXCEPT !.strength = DecayedStrength(@, factor, minStrength)] : r \in rels} :
        ~(e.strength < minStrength)}

\* decayRelationshipStrengths(db, decayFactor, minStrength)
DecayRelationshipStrengths(factor, minStrength) ==
    /\ relationships' = DecayEdges(relationships, factor, minStrength)
    /\ result' = [op |-> "decayRelationships",
                  changes |-> Cardinality({e \in relationships : e.strength > minStrength})]
    /\ UNCHANGED <<memories, nextId, embeddings, feedbackLog, nextFeedbackId,
                   nextRelId, openaiClient, now, ticks, runs>>

\* the id lists recall passes: the rows of its result, in any order
\* ------------------------------------------------------------ suggestions
\* getSuggestedMemories: the WHERE clause
MatchingEdges(rels, current) ==
    {e \in rels : /\ e.sourceId \in current \/ e.targetId \in current
                  /\ e.relationship = "similar"}

\* CASE WHEN source_id IN (...) THEN target_id ELSE source_id END
RelatedId(e, current) ==
    IF e.sourceId \in current THEN e.targetId ELSE e.sourceId

RECURSIVE SumStrength(_)
SumStrength(edges) ==
    IF edges = {} THEN 0
    ELSE LET e == CHOOSE x \in edges : TRUE
         IN e.strength + SumStrength(edges \ {e})

\* the sum over the edges a memory sends out to the current ids only
TotalStrength_OutgoingOnly(rels, current, x) ==
    SumStrength({e \in MatchingEdges(rels, current) :
                    RelatedId(e, current) = x /\ e.sourceId = x})

\* SUM(strength) of the group of related_id = x
TotalStrength(rels, current, x) ==
    SumStrength({e \in MatchingEdges(rels, current) : RelatedId(e, current) = x})

\* GROUP BY related_id HAVING related_id NOT IN (...)
RelatedGroups(rels, current) ==
    {RelatedId(e, current) : e \in MatchingEdges(rels, current)} \ current

\* ORDER BY total_strength DESC LIMIT ?: every order of the rows the query may
\* return (rows of equal total_strength come in no specified order)
RankedRows(rels, current, limit) ==
    LET groups == RelatedGroups(rels, current)
        n == Min(limit, Cardinality(groups))
    IN {rows \in [1..n -> groups] :
          /\ \A i, j \in 1..n : i < j =>
                /\ rows[i] # rows[j]
                /\ TotalStrength(rels, current, rows[i])
                      >= TotalStrength(rels, current, rows[j])
          /\ \A x \in groups \ {rows[i] : i \in 1..n} :
                \A i \in 1..n : TotalStrength(rels, current, rows[i])
                                  >= TotalStrength(rels, current, x)}

\* the loop of getMemory calls over the rows: each bumps the access data
RECURSIVE GetRows(_, _, _, _)
GetRows(mems, t, rows, i) ==
    IF i > Len(rows) THEN mems
    ELSE GetRows(UpdateMemoryAccess(mems, t, rows[i]), t, rows, i + 1)

IsActiveRow(id) == id \in MemIds /\ memories[id].status = "active"

\* getSuggestedMemories(db, currentMemoryIds, limit); rows is the query's answer
GetSuggestedMemories(currentMemoryIds, limit, rows) ==
    /\ IF Len(currentMemoryIds) = 0
       THEN rows = <<>>
       ELSE rows \in RankedRows(relationships, SeqToSet(currentMemoryIds), limit)
    /\ \A i \in 1..Len(rows) : memories[rows[i]].accessCount < MaxAccess
    /\ memories' = GetRows(memories, now, rows, 1)
    /\ result' = [op |-> "suggest", memories |-> SelectSeq(rows, IsActiveRow)]
    /\ UNCHANGED <<nextId, embeddings, feedbackLog, nextFeedbackId, relationships,
                   nextRelId, openaiClient, now, ticks, runs>>

\* ------------------------------------------------------------------ recall
Take(seq, n) == SubSeq(seq, 1, Min(n, Len(seq)))

\* queryMemories / queryMemoriesWithKeywords: the rows among matching (those
\* the keywords match; every row for a query without keywords), active unless
\* includeArchived, in the ORDER BY of the query, LIMIT limit
QueryMemories(mems, matching, includeArchived, limit) ==
    Take(SortIds(mems, {i \in DOMAIN mems \cap matching :
                          includeArchived \/ mems[i].status = "active"}), limit)

\* results.sort((a, b) => b.similarity - a.similarity): stable, highest first
SortBySimilarity(seq, sim) ==
    LET Ahead(k) == {j \in 1..Len(seq) : sim[j] > sim[k] \/ (sim[j] = sim[k] /\ j < k)}
    IN [p \in 1..Len(seq) |-> seq[CHOOSE k \in 1..Len(seq) : Cardinality(Ahead(k)) = p - 1]]

\* the rows of searchBySimilarity before the sort
SimilarRows(embs, q, all, minSimilarity) ==
    LET Near(i) == i \in DOMAIN embs /\ CosineSimilarity(q, embs[i]) >= minSimilarity
    IN SelectSeq(all, Near)

Similarities(embs, q, seq) == [k \in 1..Len(seq) |-> CosineSimilarity(q, embs[seq[k]])]

SortedRows(embs, q, seq) == SortBySimilarity(seq, Similarities(embs, q, seq))

\* searchBySimilarity: the active rows with an embedding at least minSimilarity
\* similar to the query, most similar first, limit of them
SearchBySimilarity(mems, embs, q, limit, minSimilarity) ==
    Take(SortedRows(embs, q, SimilarRows(embs, q, QueryMemories(mems, DOMAIN mems, FALSE, 1000),
                                         minSimilarity)),
         limit)

\* recall: the rows of the semantic search, or of the query it falls back to
RecallRows(semantic, fallback) == IF semantic # << >> THEN semantic ELSE fallback

\* recall: recordCoAccess(db, memoryIds, 0.1) when two rows or more came back
RecallCoAccess(rels, nextRel, rows) ==
    IF Len(rows) < 2 THEN [rels |-> rels, nextRel |-> nextRel]
    ELSE CoAccessPairs([rels |-> rels, nextRel |-> nextRel], rows, DefaultCoAccess, 1, 2)

\* recall from its rows on: updateMemoryAccess of each, the co-access, the return
RecallReturn(rows, method) ==
    /\ \A i \in 1..Len(rows) : memories[rows[i]].accessCount < MaxAccess
    /\ memories' = GetRows(memories, now, rows, 1)
    /\ relationships' = RecallCoAccess(relationships, nextRelId, rows).rels
    /\ nextRelId' = RecallCoAccess(relationships, nextRelId, rows).nextRel
    /\ result' = [op |-> "recall", success |-> TRUE, memories |-> rows,
                  searchMethod |-> method]
    /\ UNCHANGED <<nextId, embeddings, feedbackLog, nextFeedbackId,
                   openaiClient, now, ticks, runs>>

\* memory_recall with includeLinked and includeSuggestions off: q is the
\* embedding of the query (NoVec when generateEmbedding threw), matching the
\* rows its keywords match
Recall(q, matching, limit) ==
    \E semantic \in {IF openaiClient /\ q # NoVec
                      THEN SearchBySimilarity(memories, embeddings, q, limit, MinSimilarity)
                      ELSE << >>} :
        \E rows \in {RecallRows(semantic, QueryMemories(memories, matching, FALSE, limit))} :
            RecallReturn(rows, IF semantic # << >> THEN "semantic"
                               ELSE IF matching = MemIds THEN "all" ELSE "keyword")

IdListChoices ==
    {<<1>>, <<1, 2>>, <<2, 1>>, <<1, 2, 3>>, <<3, 1, 2>>}

\* ------------------------------------------------------------ specification
\* The handlers one at a time: while a consolidate is suspended at its await,
\* no other handler runs.
\* the ids the handlers are called with: every row, and one id that is no row
IdChoices == MemIds \cup {nextId}

\* a session of the whole engine is MaxSteps handler steps long; the sessions
\* of one part of the engine are bounded by the stores' bounds alone
Budget == steps < MaxSteps /\ steps' = steps + 1 /\ request' = request
NoBudget == steps' = steps /\ request' = request

Next ==
    \/ \E d \in AdvanceChoices : Budget /\ AllIdle /\ Tick(d)
    \/ Budget /\ AllIdle /\ InitOpenAI
    \/ \E i \in ImportanceChoices, v \in VecChoices : Budget /\ AllIdle /\ Remember(i, v)
    \/ \E id \in IdChoices : Budget /\ AllIdle /\ GetMemory(id)
    \/ \E id \in IdChoices, f \in FeedbackTypes : Budget /\ AllIdle /\ RecordFeedback(id, f)
    \/ \E id \in IdChoices, f \in FeedbackTypes : Budget /\ AllIdle /\ Feedback(id, f)
    \/ Budget /\ AllIdle /\ ApplyDecayToAll
    \/ \E dry \in BOOLEAN : Budget /\ AllIdle /\ EvolveDecay(dry)
    \/ \E u \in MinUsefulnessChoices, a \in MaxAgeChoices, p \in BOOLEAN, dry \in BOOLEAN :
          Budget /\ AllIdle /\ Prune(u, a, p, dry)
    \/ \E dry \in BOOLEAN : Budget /\ AllIdle /\ EvolvePrune(dry)
    \/ \E id \in IdChoices : Budget /\ AllIdle /\ RestoreArchivedMemory(id)
    \/ \E t \in ThresholdChoices, dry \in BOOLEAN : Budget /\ AllIdle /\ ConsolidateStart(1, t, dry)
    \/ \E r \in RunIds, v \in VecChoices \cup {NoVec} : Budget /\ ConsolidateResume(r, v)

Spec == Init /\ [][Next]_vars

\* a server started without an API key in its configuration
InitNoKey == Init /\ openaiClient = FALSE

\* the pruner and what feeds it: creation, time, access, feedback, restore
NextPrune ==
    \/ \E d \in AdvanceChoices : NoBudget /\ Tick(d)
    \/ \E i \in ImportanceChoices : NoBudget /\ Remember(i, VA)
    \/ \E id \in IdChoices : NoBudget /\ GetMemory(id)
    \/ \E id \in IdChoices, f \in FeedbackTypes : NoBudget /\ RecordFeedback(id, f)
    \/ \E u \in MinUsefulnessChoices, a \in MaxAgeChoices, p \in BOOLEAN, dry \in BOOLEAN :
          NoBudget /\ Prune(u, a, p, dry)
    \/ \E dry \in BOOLEAN : NoBudget /\ EvolvePrune(dry)
    \/ \E id \in IdChoices : NoBudget /\ RestoreArchivedMemory(id)

SpecPrune == InitNoKey /\ [][NextPrune]_vars

\* the pruner at the age limit: the clock advances by exactly maxAge days
NextPruneAtLimit ==
    \/ NoBudget /\ Tick(DefaultMaxAge * TicksPerDay)
    \/ \E i \in ImportanceChoices : NoBudget /\ Remember(i, VA)
    \/ \E id \in IdChoices : NoBudget /\ GetMemory(id)
    \/ \E id \in IdChoices, f \in FeedbackTypes : NoBudget /\ RecordFeedback(id, f)
    \/ \E u \in MinUsefulnessChoices, a \in MaxAgeChoices, p \in BOOLEAN, dry \in BOOLEAN :
          NoBudget /\ Prune(u, a, p, dry)

SpecPruneAtLimit == InitNoKey /\ [][NextPruneAtLimit]_vars

\* the scorer and what feeds it: creation, time, access, feedback, decay
NextFeedback ==
    \/ \E d \in AdvanceChoices : NoBudget /\ Tick(d)
    \/ \E i \in ImportanceChoices : NoBudget /\ Remember(i, VA)
    \/ \E id \in IdChoices : NoBudget /\ GetMemory(id)
    \/ \E id \in IdChoices, f \in FeedbackTypes : NoBudget /\ RecordFeedback(id, f)
    \/ \E id \in IdChoices, f \in FeedbackTypes : NoBudget /\ Feedback(id, f)
    \/ NoBudget /\ ApplyDecayToAll
    \/ \E dry \in BOOLEAN : NoBudget /\ EvolveDecay(dry)

SpecFeedback == InitNoKey /\ [][NextFeedback]_vars

\* the consolidation engine and the operations that move a status
NextConsolidate ==
    \/ \E d \in AdvanceChoices : NoBudget /\ AllIdle /\ Tick(d)
    \/ NoBudget /\ AllIdle /\ InitOpenAI
    \/ \E i \in ImportanceChoices, v \in VecChoices : NoBudget /\ AllIdle /\ Remember(i, v)
    \/ \E u \in MinUsefulnessChoices, a \in MaxAgeChoices, p \in BOOLEAN, dry \in BOOLEAN :
          NoBudget /\ AllIdle /\ Prune(u, a, p, dry)
    \/ \E id \in IdChoices : NoBudget /\ AllIdle /\ RestoreArchivedMemory(id)
    \/ \E t \in ThresholdChoices, dry \in BOOLEAN : NoBudget /\ AllIdle /\ ConsolidateStart(1, t, dry)
    \/ \E r \in RunIds, v \in VecChoices \cup {NoVec} : NoBudget /\ ConsolidateResume(r, v)

SpecConsolidate == Init /\ [][NextConsolidate]_vars

\* the relationship store: co-access, consolidation, decay, and the deletes
\* that cascade to it
EdgeBudget == steps < MaxEdgeSteps /\ steps' = steps + 1 /\ request' = request

NextRelationships ==
    \/ EdgeBudget /\ AllIdle /\ Tick(DefaultMaxAge * TicksPerDay + 1)
    \/ \E i \in ImportanceChoices : EdgeBudget /\ AllIdle /\ Remember(i, VA)
    \/ \E ids \in IdListChoices, s \in CoAccessChoices :
          EdgeBudget /\ AllIdle /\ RecordCoAccess(ids, s)
    \/ \E f \in DecayFactorChoices, m \in MinStrengthChoices :
          EdgeBudget /\ AllIdle /\ DecayRelationshipStrengths(f, m)
    \/ \E p \in BOOLEAN :
          EdgeBudget /\ AllIdle /\ Prune(10 * Scale, DefaultMaxAge, p, FALSE)
    \/ EdgeBudget /\ AllIdle /\ ConsolidateStart(1, DefaultThreshold, FALSE)
    \/ \E r \in RunIds : EdgeBudget /\ ConsolidateResume(r, VA)

InitWithKey == Init /\ openaiClient = TRUE

\* one client's session: request is the call it made last
Call(req) ==
    /\ steps < MaxCalls
    /\ steps' = steps + 1
    /\ request' = req

ArchivedIds == {i \in MemIds : memories[i].status = "archived"}

NextSession ==
    \/ Call([op |-> "wait"]) /\ AllIdle /\ Tick(DefaultMaxAge * TicksPerDay + 1)
    \/ \E i \in ImportanceChoices :
          Call([op |-> "remember"]) /\ AllIdle /\ Remember(i, VA)
    \/ \E id \in IdChoices : Call([op |-> "get"]) /\ AllIdle /\ GetMemory(id)
    \/ \E u \in MinUsefulnessChoices, a \in MaxAgeChoices, p \in BOOLEAN, dry \in BOOLEAN :
          /\ Call([op |-> "prune", minUsefulness |-> u, maxAge |-> a, dryRun |-> dry])
          /\ AllIdle
          /\ Prune(u, a, p, dry)
    \/ \E id \in ArchivedIds :
          Call([op |-> "restore", id |-> id]) /\ AllIdle /\ RestoreArchivedMemory(id)
    \/ \E t \in ThresholdChoices, dry \in BOOLEAN :
          /\ Call([op |-> "consolidate", threshold |-> t, dryRun |-> dry])
          /\ AllIdle
          /\ ConsolidateStart(1, t, dry)
    \/ \E r \in RunIds : NoBudget /\ ConsolidateResume(r, VA)

SpecSession == Init /\ [][NextSession]_vars

\* ------------------------------------------------- stores of remembered rows
RememberedChoices == {<<1, 1, 1, 1>>, <<8, 8, 8, 1>>}

\* the store after four memory_remember calls at time 0 on a server without
\* an API key; RememberedChoices are the importances of the calls
InitRemembered ==
    /\ \E imps \in RememberedChoices :
          /\ memories = [i \in 1..Len(imps) |-> NewRow(imps[i], 0)]
          /\ nextId = Len(imps) + 1
    /\ embeddings = <<>>
    /\ feedbackLog = {}
    /\ nextFeedbackId = 1
    /\ relationships = {}
    /\ nextRelId = 1
    /\ openaiClient = FALSE
    /\ now = 0
    /\ ticks = 0
    /\ runs = [r \in RunIds |-> IdleRun]
    /\ result = [op |-> "none"]
    /\ steps = 0
    /\ request = [op |-> "none"]

CoAccessLists == {<<1, 2>>, <<1, 4>>, <<1, 2, 3, 4>>}
CurrentChoices == {<< >>, <<1>>, <<1, 2>>}

\* the answers the query of getSuggestedMemories may give
RowChoices(cur, limit) ==
    IF Len(cur) = 0 THEN {<< >>} ELSE RankedRows(relationships, SeqToSet(cur), limit)

SuggestBudget == steps < MaxSuggestSteps /\ steps' = steps + 1 /\ request' = request

NextSuggest ==
    \/ SuggestBudget /\ Tick(DefaultMaxAge * TicksPerDay + 1)
    \/ \E ids \in CoAccessLists : SuggestBudget /\ RecordCoAccess(ids, DefaultCoAccess)
    \/ \E id \in MemIds : SuggestBudget /\ RecordFeedback(id, "helpful")
    \/ SuggestBudget /\ Prune(10 * Scale, DefaultMaxAge, FALSE, FALSE)
    \/ \E cur \in CurrentChoices, limit \in LimitChoices :
          \E rows \in RowChoices(cur, limit) :
              SuggestBudget /\ GetSuggestedMemories(cur, limit, rows)

SpecSuggest == InitRemembered /\ [][NextSuggest]_vars

\* the store after three or four memory_remember calls at time 0, each embedded
\* or not, on a server that now has an API key or has none
EmbeddedImportances == {<<4, 4, 4>>, <<6, 4, 4>>, <<9, 6, 4>>, <<4, 4, 4, 4>>}

InitEmbedded ==
    /\ \E imps \in EmbeddedImportances :
          /\ memories = [i \in 1..Len(imps) |-> NewRow(imps[i], 0)]
          /\ nextId = Len(imps) + 1
    /\ \E S \in SUBSET DOMAIN memories : embeddings \in [S -> ClusterVecs]
    /\ feedbackLog = {}
    /\ nextFeedbackId = 1
    /\ relationships = {}
    /\ nextRelId = 1
    /\ openaiClient \in BOOLEAN
    /\ now = 0
    /\ ticks = 0
    /\ runs = [r \in RunIds |-> IdleRun]
    /\ result = [op |-> "none"]
    /\ steps = 0
    /\ request = [op |-> "none"]

\* the consolidation engine on such a store
NextClusters ==
    \/ \E t \in ClusterThresholds, dry \in BOOLEAN :
          NoBudget /\ AllIdle /\ ConsolidateStart(1, t, dry)
    \/ \E r \in RunIds, v \in {VC, NoVec} : NoBudget /\ ConsolidateResume(r, v)

SpecClusters == InitEmbedded /\ [][NextClusters]_vars

SpecRelationships == InitWithKey /\ [][NextRelationships]_vars

\* recall on a store that consolidation has worked on
NextRecall ==
    \/ \E i \in ImportanceChoices, v \in VecChoices : NoBudget /\ AllIdle /\ Remember(i, v)
    \/ NoBudget /\ AllIdle /\ ConsolidateStart(1, DefaultThreshold, FALSE)
    \/ \E r \in RunIds, v \in {VA, NoVec} : NoBudget /\ ConsolidateResume(r, v)
    \/ \E q \in VecChoices \cup {NoVec}, limit \in RecallLimits :
          \E matching \in {MemIds, MemIds \cap {1}} :
              /\ Call([op |-> "recall", limit |-> limit, all |-> matching = MemIds])
              /\ AllIdle
              /\ Recall(q, matching, limit)

SpecRecall == InitWithKey /\ [][NextRecall]_vars

\* the store after one memory_remember at time 0 on a server without an API
\* key; the importance of the call is any the tool accepts
ScoredImportances == 1..9

InitScored ==
    /\ \E imp \in ScoredImportances : memories = <<NewRow(imp, 0)>>
    /\ nextId = 2
    /\ embeddings = <<>>
    /\ feedbackLog = {}
    /\ nextFeedbackId = 1
    /\ relationships = {}
    /\ nextRelId = 1
    /\ openaiClient = FALSE
    /\ now = 0
    /\ ticks = 0
    /\ runs = [r \in RunIds |-> IdleRun]
    /\ result = [op |-> "none"]
    /\ steps = 0
    /\ request = [op |-> "none"]

\* the scorer on one memory, and the pruner that reads its scores
NextScorer ==
    \/ \E d \in AdvanceChoices : NoBudget /\ Tick(d)
    \/ \E id \in MemIds : NoBudget /\ GetMemory(id)
    \/ \E id \in MemIds, f \in FeedbackTypes : NoBudget /\ RecordFeedback(id, f)
    \/ NoBudget /\ ApplyDecayToAll
    \/ \E a \in MaxAgeChoices, p \in BOOLEAN, dry \in BOOLEAN :
          NoBudget /\ Prune(DefaultMinUsefulness, a, p, dry)

SpecScorer == InitScored /\ [][NextScorer]_vars

\* Handlers that overlap: memory_consolidate is async and gives up control at
\* its await of embedMemory; the server takes the next request meanwhile, so
\* any handler, a second consolidate too, runs between the two halves.
OverlapBudget == steps < MaxOverlapSteps /\ steps' = steps + 1 /\ request' = request

NextOverlap ==
    \/ OverlapBudget /\ Tick(DefaultMaxAge * TicksPerDay + 1)
    \/ OverlapBudget /\ Remember(1, VA)
    \/ \E p \in BOOLEAN : OverlapBudget /\ Prune(10 * Scale, DefaultMaxAge, p, FALSE)
    \/ \E id \in MemIds : OverlapBudget /\ Forget(id)
    \/ \E id \in ArchivedIds : OverlapBudget /\ RestoreArchivedMemory(id)
    \/ \E r \in RunIds : OverlapBudget /\ ConsolidateStart(r, DefaultThreshold, FALSE)
    \/ \E r \in RunIds : OverlapBudget /\ ConsolidateResume(r, VA)

SpecOverlap == InitWithKey /\ [][NextOverlap]_vars

\* ------------------------------------------------------------------ claims
\* what a step archived or removed
Archived(i) ==
    /\ i \in DOMAIN memories'
    /\ memories[i].status # "archived"
    /\ memories'[i].status = "archived"

Removed(i) == i \notin DOMAIN memories'

Protected(i) ==
    \/ memories[i].importance >= HighImportance
    \/ DaysSinceAccess(now, memories[i].accessedAt) < RecentCutoff

\* C1: whatever the thresholds, permanent and dryRun, no step of prune or of
\* evolve --prune selects, archives or deletes a memory of importance 8 or 9,
\* nor one whose last access is less than 7 days old.
PruneNeverSelectsProtected ==
    [][/\ \A i \in DOMAIN memories : Archived(i) \/ Removed(i) => ~Protected(i)
       /\ result'.op \in {"prune", "evolvePrune"} =>
            \A i \in result'.pruned : i \in DOMAIN memories /\ ~Protected(i)]_vars

\* a live prune took a memory while an old memory of high importance and a
\* recently accessed one were in the store
PruneSkipsProtectedWitness ==
    /\ result.op = "prune"
    /\ ~result.dryRun
    /\ result.pruned # {}
    /\ \E i \in MemIds :
          /\ memories[i].status = "active"
          /\ \/ /\ memories[i].importance >= HighImportance
                /\ DaysSinceAccess(now, memories[i].accessedAt) >= DefaultMaxAge
             \/ <<"recently-accessed", i>> \in result.warnings

\* C2: in every reachable state a memory with status consolidated has a
\* parentId that is a row of memories, whose level is the memory's level + 1
\* capped at 3.
ConsolidatedHasParent ==
    \A i \in MemIds :
        memories[i].status = "consolidated" =>
            /\ memories[i].parentId \in MemIds
            /\ memories[memories[i].parentId].level = Min(MaxLevel, memories[i].level + 1)

\* a consolidated memory whose parent was deleted
OrphanedConsolidated ==
    \E i \in MemIds :
        /\ memories[i].status = "consolidated"
        /\ memories[i].parentId = NoParent
        /\ result.op = "prune"

\* C3: the part of a live consolidate that handles one cluster of n >= 2
\* memories creates exactly one memory, at level min(3, max source level + 1),
\* and leaves exactly the n sources consolidated with that memory as parent.
ConsolidateClusterEffect ==
    [][\A r \in RunIds :
        /\ runs[r].pc = "idle" /\ runs'[r].pc = "await" =>
              /\ DOMAIN memories' = DOMAIN memories \cup {runs'[r].newId}
              /\ runs'[r].newId \notin DOMAIN memories
        /\ runs[r].pc = "await" /\ result'.op \in {"pending", "consolidate"} =>
              LET members == SeqToSet(runs[r].clusters[runs[r].k].members)
                  newId == runs[r].newId
              IN /\ Cardinality(members) >= 2
                 /\ result'.op = "consolidate" =>
                        result'.success /\ DOMAIN memories' = DOMAIN memories
                 /\ newId \in DOMAIN memories'
                 /\ memories'[newId].status = "active"
                 /\ memories'[newId].level =
                        Min(MaxLevel, SetMax({memories[m].level : m \in members}) + 1)
                 /\ {i \in DOMAIN memories' :
                        /\ memories'[i].status = "consolidated"
                        /\ memories'[i].parentId = newId} = members
                 /\ \A i \in DOMAIN memories \ members :
                        memories'[i] = memories[i]]_vars

\* a live consolidate returned with one abstraction over two sources
ConsolidateClusterWitness ==
    /\ result.op = "consolidate"
    /\ result.success
    /\ ~result.dryRun
    /\ Len(result.abstractionsCreated) = 1
    /\ \E i \in MemIds :
          /\ memories[i].level = 2
          /\ Cardinality({j \in MemIds : /\ memories[j].status = "consolidated"
                                         /\ memories[j].parentId = i}) = 2

\* C4: consolidated is terminal and entered only by consolidation: no step
\* changes the status of a consolidated memory, a memory becomes consolidated
\* only in a step of consolidate, and a step that makes a memory active again
\* starts from archived.
ConsolidatedIsTerminal ==
    [][\A i \in DOMAIN memories \cap DOMAIN memories' :
        /\ memories[i].status = "consolidated" => memories'[i].status = "consolidated"
        /\ memories[i].status # "consolidated" /\ memories'[i].status = "consolidated" =>
              \E r \in RunIds : runs[r].pc = "await"
        /\ memories[i].status # "active" /\ memories'[i].status = "active" =>
              memories[i].status = "archived"]_vars

\* a source of an abstraction that is active again, without a parent
RestoredConsolidated ==
    \E i \in MemIds :
        /\ memories[i].status = "active"
        /\ memories[i].parentId = NoParent
        /\ \E rel \in relationships :
              rel.sourceId = i /\ rel.relationship = "derived_from"

\* C5: whenever prune leaves out a memory that meets the score and age
\* criteria because its importance is 8 or more, or because it was accessed in
\* the last 7 days, the result's warnings name that memory and the reason.
PruneExclusionsWarned ==
    [][\A u \in MinUsefulnessChoices, a \in MaxAgeChoices, p \in BOOLEAN, dry \in BOOLEAN :
        Prune(u, a, p, dry) =>
            \A i \in DOMAIN memories :
                /\ memories[i].status = "active"
                /\ memories[i].usefulnessScore < u
                /\ memories[i].accessedAt < now - a * TicksPerDay
                => /\ memories[i].importance >= HighImportance =>
                        <<"high-importance", i>> \in result'.warnings
                   /\ /\ memories[i].importance < HighImportance
                      /\ DaysSinceAccess(now, memories[i].accessedAt) < RecentCutoff
                      => <<"recently-accessed", i>> \in result'.warnings]_vars

RecordFeedbackEffect ==
    [][\A id \in DOMAIN memories, f \in FeedbackTypes :
        RecordFeedback(id, f) =>
            LET m == memories[id]
                h == m.timesHelpful + (IF f = "helpful" THEN 1 ELSE 0)
                u == m.timesUnhelpful + (IF f \in {"unhelpful", "incorrect"} THEN 1 ELSE 0)
            IN /\ Cardinality(feedbackLog') = Cardinality(feedbackLog) + 1
               /\ feedbackLog \subseteq feedbackLog'
               /\ \A row \in feedbackLog' \ feedbackLog :
                    row.memoryId = id /\ row.feedbackType = f /\ row.timestamp = now
               /\ memories'[id].timesHelpful = h
               /\ memories'[id].timesUnhelpful = u
               /\ memories'[id].usefulnessScore =
                    Min(MaxScore, Max(MinScore,
                        RawScore(m.importance, h, u, now - m.accessedAt, m.accessCount)))
               /\ \A j \in DOMAIN memories \ {id} : memories'[j] = memories[j]]_vars

\* an outdated feedback was logged for a memory whose counters are still 0
RecordFeedbackWitness ==
    /\ result.op = "recordFeedback"
    /\ result.error = "none"
    /\ \E row \in feedbackLog :
          /\ row.feedbackType = "outdated"
          /\ row.memoryId \in MemIds
          /\ memories[row.memoryId].timesHelpful = 0
          /\ memories[row.memoryId].timesUnhelpful = 0
          /\ memories[row.memoryId].lastDecay = now

ScoreInRange ==
    \A i \in MemIds :
        /\ memories[i].usefulnessScore >= MinScore
        /\ memories[i].usefulnessScore <= MaxScore

\* the scorer ran on a memory whose raw score is below 1.0
ScoreClampedWitness ==
    \E i \in MemIds :
        /\ memories[i].lastDecay # NoDecay
        /\ memories[i].usefulnessScore = MinScore
        /\ RawScore(memories[i].importance, memories[i].timesHelpful,
                    memories[i].timesUnhelpful, memories[i].lastDecay - memories[i].accessedAt,
                    memories[i].accessCount) < MinScore

FeedbackLogAppendOnly ==
    [][feedbackLog \subseteq feedbackLog']_vars

\* a feedback event was recorded and the log is empty again
FeedbackEventLost ==
    /\ nextFeedbackId > 1
    /\ feedbackLog = {}

\* C12: decayRelationshipStrengths never weakens or deletes a derived_from
\* edge: only similar edges decay.
DerivedFromPermanent ==
    [][\A f \in DecayFactorChoices, m \in MinStrengthChoices :
        DecayRelationshipStrengths(f, m) =>
            \A e \in relationships :
                e.relationship = "derived_from" => e \in relationships']_vars

\* a derived_from edge weaker than the similarity it was created with
WeakenedProvenance ==
    /\ result.op = "decayRelationships"
    /\ \E e \in relationships :
          /\ e.relationship = "derived_from"
          /\ e.strength < AverageSimilarity(embeddings, <<e.sourceId, e.sourceId>>)

\* C13: prune selects exactly the active memories whose usefulnessScore is
\* below minUsefulness and whose days since last access are at least maxAge,
\* less the memories of importance 8 or more and those accessed in the last 7
\* days.
PruneSelectsExactly ==
    [][\A u \in MinUsefulnessChoices, a \in MaxAgeChoices, p \in BOOLEAN, dry \in BOOLEAN :
        Prune(u, a, p, dry) =>
            result'.pruned =
                {i \in DOMAIN memories :
                    /\ memories[i].status = "active"
                    /\ memories[i].usefulnessScore < u
                    /\ DaysSinceAccess(now, memories[i].accessedAt) >= a
                    /\ ~Protected(i)}]_vars

\* prune found nothing eligible with an active memory of low score and low
\* importance whose last access is exactly DefaultMaxAge days old
PruneMissesAgeLimit ==
    /\ result.op = "prune"
    /\ result.pruned = {}
    /\ \E i \in MemIds :
          /\ memories[i].status = "active"
          /\ memories[i].usefulnessScore < DefaultMinUsefulness
          /\ memories[i].importance < HighImportance
          /\ now - memories[i].accessedAt = DefaultMaxAge * TicksPerDay

\* C14: a live prune with permanent = false sets each selected memory to
\* archived and removes nothing; with permanent = true it removes each
\* selected memory with its embedding and every edge it is an end of.
PruneArchivesOrDeletes ==
    [][\A u \in MinUsefulnessChoices, a \in MaxAgeChoices, p \in BOOLEAN :
        Prune(u, a, p, FALSE) /\ result'.pruned # {} =>
            LET sel == result'.pruned
            IN IF p
               THEN /\ DOMAIN memories' = DOMAIN memories \ sel
                    /\ DOMAIN embeddings' = DOMAIN embeddings \ sel
                    /\ relationships' =
                          {e \in relationships : e.sourceId \notin sel /\ e.targetId \notin sel}
               ELSE /\ DOMAIN memories' = DOMAIN memories
                    /\ \A i \in sel : memories'[i].status = "archived"
                    /\ \A i \in DOMAIN memories \ sel :
                          memories'[i].status = memories[i].status
                    /\ embeddings' = embeddings
                    /\ relationships' = relationships]_vars

\* a permanent prune removed a memory of a store in which edges were created,
\* and no embedding or edge of it is left
PermanentPruneWitness ==
    /\ result.op = "prune"
    /\ ~result.dryRun
    /\ \E i \in result.pruned :
          /\ i \notin MemIds
          /\ i \notin DOMAIN embeddings
    /\ nextRelId > 1
    /\ \E i \in MemIds : i \in DOMAIN embeddings

\* C15: prune and consolidate with dryRun = true, and evolve --dry-run, leave
\* the store unchanged.
DryRunLeavesStore ==
    [][(\/ \E u \in MinUsefulnessChoices, a \in MaxAgeChoices, p \in BOOLEAN :
              Prune(u, a, p, TRUE)
        \/ \E r \in RunIds, t \in ThresholdChoices : ConsolidateStart(r, t, TRUE)
        \/ EvolveDecay(TRUE)
        \/ EvolvePrune(TRUE))
       => /\ memories' = memories
          /\ embeddings' = embeddings
          /\ relationships' = relationships
          /\ feedbackLog' = feedbackLog
          /\ nextId' = nextId
          /\ nextRelId' = nextRelId]_vars

\* a dry run of prune reported a memory, which is still active
DryRunWitness ==
    /\ result.op = "prune"
    /\ result.dryRun
    /\ \E i \in result.pruned : i \in MemIds /\ memories[i].status = "active"

ArchiveRestoreRoundTrip ==
    [][/\ \A i \in DOMAIN memories :
            Archived(i) => memories'[i] = [memories[i] EXCEPT !.status = "archived"]
       /\ \A id \in DOMAIN memories :
            memories[id].status = "archived" /\ RestoreArchivedMemory(id) =>
                memories'[id] = [memories[id] EXCEPT !.status = "active"]]_vars

\* the session's last call restored an archived memory that had been read
RestoredWitness ==
    /\ request.op = "restore"
    /\ request.id \in MemIds
    /\ memories[request.id].status = "active"
    /\ memories[request.id].accessCount > 0

\* C18: recordCoAccess(ids, s) touches exactly one similar edge per unordered
\* pair of ids, stored smaller id first: created with strength s when absent,
\* otherwise s added to its strength, capped at 10; no other edge changes.
CoAccessPairsTouched ==
    [][\A ids \in IdListChoices, s \in CoAccessChoices :
        RecordCoAccess(ids, s) =>
            LET pairs == {<<Min(ids[i], ids[j]), Max(ids[i], ids[j])>> :
                            i \in 1..Len(ids), j \in 1..Len(ids)} \ {<<x, x>> : x \in MemIds}
                OfPair(rels, pr) == {e \in rels : /\ e.relationship = "similar"
                                                  /\ <<e.sourceId, e.targetId>> = pr}
                Others(rels) == {e \in rels : \/ e.relationship # "similar"
                                              \/ <<e.sourceId, e.targetId>> \notin pairs}
            IN /\ Others(relationships') = Others(relationships)
               /\ \A pr \in pairs :
                    /\ Cardinality(OfPair(relationships', pr)) = 1
                    /\ \A new \in OfPair(relationships', pr) :
                          IF OfPair(relationships, pr) = {}
                          THEN new.strength = s
                          ELSE \E old \in OfPair(relationships, pr) :
                                  /\ new.id = old.id
                                  /\ new.strength = Min(10 * SimScale, old.strength + s)]_vars

\* the three edges (1,2), (1,3), (2,3), one of them at the cap
CoAccessWitness ==
    /\ \A pr \in {<<1, 2>>, <<1, 3>>, <<2, 3>>} :
          \E e \in relationships :
              e.relationship = "similar" /\ e.sourceId = pr[1] /\ e.targetId = pr[2]
    /\ Cardinality({e \in relationships : e.relationship = "similar"}) = 3

\* C19: two decay passes with factor f leave the edges one pass with factor
\* f * f leaves, and no pass leaves an edge of negative strength.
DecayTwiceIsDecaySquared ==
    \A m \in MinStrengthChoices :
        /\ DecayEdges(DecayEdges(relationships, HalfFactor, m), HalfFactor, m)
              = DecayEdges(relationships, (HalfFactor * HalfFactor) \div SimScale, m)
        /\ \A e \in relationships : e.strength >= 0

\* C20: decayRelationshipStrengths(factor, floor) multiplies every edge's
\* strength by factor and deletes the edges then below floor: what remains is
\* every edge with old strength * factor >= floor, at that strength.
DecayMultipliesThenDeletes ==
    [][\A f \in DecayFactorChoices, m \in MinStrengthChoices :
        DecayRelationshipStrengths(f, m) =>
            relationships' =
                {e \in {[r EXCEPT !.strength = (@ * f) \div SimScale] : r \in relationships} :
                    e.strength >= m}]_vars

\* the edges a recordCoAccess(ids, s) call leaves, and an edge without its row id
CoAccessed(rels, ids, s) ==
    CoAccessPairs([rels |-> rels, nextRel |-> nextRelId], ids, s, 1, 2).rels

Unnumbered(rels) ==
    {[sourceId |-> e.sourceId, targetId |-> e.targetId,
      relationship |-> e.relationship, strength |-> e.strength] : e \in rels}

CallableIdLists == {ids \in IdListChoices : SeqToSet(ids) \subseteq MemIds}

StrengthInRange ==
    \A e \in relationships : e.strength > 0 /\ e.strength <= 10 * SimScale

\* an edge stronger than the cap
EdgeAboveCap ==
    \E e \in relationships : e.relationship = "similar" /\ e.strength > 10 * SimScale

\* the summed strength of the similar edges between x and the ids of current
RECURSIVE StrengthSum(_)
StrengthSum(edges) ==
    IF edges = {} THEN 0
    ELSE LET e == CHOOSE x \in edges : TRUE
         IN e.strength + StrengthSum(edges \ {e})

Connecting(x, current) ==
    {e \in relationships :
        /\ e.relationship = "similar"
        /\ \/ e.sourceId = x /\ e.targetId \in current
           \/ e.targetId = x /\ e.sourceId \in current}

\* C23: getSuggestedMemories(currentIds, limit) returns at most limit memories,
\* all of them active, none of them in currentIds, in order of decreasing sum
\* of the strengths of the edges that connect each to ids in currentIds.
SuggestionsRanked ==
    [][\A cur \in CurrentChoices, limit \in LimitChoices :
       \A rows \in RowChoices(cur, limit) :
        GetSuggestedMemories(cur, limit, rows) =>
            LET out == result'.memories
                current == SeqToSet(cur)
            IN /\ Len(out) <= limit
               /\ \A k \in 1..Len(out) :
                    /\ out[k] \in DOMAIN memories
                    /\ memories[out[k]].status = "active"
                    /\ out[k] \notin current
                    /\ Connecting(out[k], current) # {}
               /\ \A j, k \in 1..Len(out) :
                    j < k => /\ out[j] # out[k]
                             /\ StrengthSum(Connecting(out[j], current))
                                   >= StrengthSum(Connecting(out[k], current))]_vars

\* two suggestions of different summed strengths were returned while a third
\* related memory, archived, was left out
SuggestionsWitness ==
    /\ result.op = "suggest"
    /\ Len(result.memories) = 2
    /\ StrengthSum(Connecting(result.memories[1], {1}))
          > StrengthSum(Connecting(result.memories[2], {1}))
    /\ \E i \in MemIds : memories[i].status = "archived" /\ Connecting(i, {1}) # {}

\* C24: when two suggested memories have the same total edge strength,
\* getSuggestedMemories ranks the one with the higher usefulnessScore first.
TiesByUsefulness ==
    [][\A cur \in CurrentChoices, limit \in LimitChoices :
       \A rows \in RowChoices(cur, limit) :
        GetSuggestedMemories(cur, limit, rows) =>
            LET out == result'.memories
                current == SeqToSet(cur)
            IN \A j, k \in 1..Len(out) :
                  /\ j < k
                  /\ StrengthSum(Connecting(out[j], current))
                        = StrengthSum(Connecting(out[k], current))
                  => memories[out[j]].usefulnessScore >= memories[out[k]].usefulnessScore]_vars

\* two suggestions of equal summed strength, the less useful one first
TieMisordered ==
    /\ result.op = "suggest"
    /\ Len(result.memories) = 2
    /\ \E cur \in CurrentChoices :
          StrengthSum(Connecting(result.memories[1], SeqToSet(cur)))
              = StrengthSum(Connecting(result.memories[2], SeqToSet(cur)))
    /\ memories[result.memories[1]].usefulnessScore
          < memories[result.memories[2]].usefulnessScore

\* the clusters a step of consolidate ends with: those of the dry-run return,
\* those kept by the live run at its await, none when it returned without
ClustersOfStep(r) ==
    IF runs'[r].pc = "await" THEN runs'[r].clusters
    ELSE IF "clusters" \in DOMAIN result' THEN result'.clusters
    ELSE << >>

Sim(x, y) == CosineSimilarity(embeddings[x], embeddings[y])

\* C25: clustering is greedy and anchor-based in input order: each candidate
\* not yet assigned opens a cluster, every candidate still unassigned whose
\* similarity to that anchor is at least the threshold joins it, whatever its
\* similarity to the other members, each memory is in at most one cluster and
\* clusters of size 1 are discarded.
GreedyAnchorClusters ==
    [][\A t \in ClusterThresholds, dry \in BOOLEAN :
        ConsolidateStart(1, t, dry) /\ openaiClient =>
            LET cl == ClustersOfStep(1)
                order == Candidates(memories)
                Pos(x) == CHOOSE k \in 1..Len(order) : order[k] = x
                embedded == SeqToSet(order) \cap DOMAIN embeddings
                In(c) == SeqToSet(cl[c].members)
                Anchor(c) == cl[c].members[1]
                clustered == UNION {In(c) : c \in 1..Len(cl)}
            IN /\ \A c \in 1..Len(cl) :
                    /\ Len(cl[c].members) >= 2
                    /\ Cardinality(In(c)) = Len(cl[c].members)
                    /\ In(c) \subseteq embedded
                    /\ \A x \in In(c) \ {Anchor(c)} :
                          Sim(Anchor(c), x) >= t /\ Pos(Anchor(c)) < Pos(x)
                    /\ \A o \in embedded \ In(c) :
                          Sim(Anchor(c), o) >= t =>
                              \E d \in 1..Len(cl) : d < c /\ o \in In(d)
               /\ \A c, d \in 1..Len(cl) :
                    c < d => /\ In(c) \cap In(d) = {}
                             /\ Pos(Anchor(c)) < Pos(Anchor(d))
               /\ \A x, y \in embedded \ clustered : x # y => Sim(x, y) < t]_vars

\* a dry run reported a cluster two of whose members are less similar to each
\* other than the default threshold
AnchorClusterWitness ==
    /\ result.op = "consolidate"
    /\ result.dryRun
    /\ result.clustersFound > 0
    /\ \E c \in 1..Len(result.clusters) :
          \E x, y \in SeqToSet(result.clusters[c].members) : Sim(x, y) < LowThreshold

\* C26: for every cluster combinedImportance = min(9, highest importance in the
\* cluster + floor(log2(cluster size))): at most 9 and at least the highest
\* source importance; importance 6 and 4 in one cluster give 7.
CombinedImportanceFormula ==
    [][\A t \in ClusterThresholds, dry \in BOOLEAN :
        ConsolidateStart(1, t, dry) =>
            LET cl == ClustersOfStep(1)
            IN /\ \A c \in 1..Len(cl) :
                    LET imps == {memories[m].importance : m \in SeqToSet(cl[c].members)}
                        highest == CHOOSE i \in imps : \A j \in imps : j <= i
                        n == Len(cl[c].members)
                        log2 == IF n < 2 THEN 0 ELSE IF n < 4 THEN 1 ELSE IF n < 8 THEN 2 ELSE 3
                    IN /\ cl[c].combinedImportance =
                            (IF highest + log2 > 9 THEN 9 ELSE highest + log2)
                       /\ cl[c].combinedImportance <= 9
                       /\ cl[c].combinedImportance >= highest
                       /\ imps = {4, 6} /\ n = 2 => cl[c].combinedImportance = 7
               /\ runs'[1].pc = "await" =>
                    memories'[runs'[1].newId].importance = cl[1].combinedImportance]_vars

\* a dry run reported a cluster of two memories of importance 6 and 4 with
\* combinedImportance 7
CombinedImportanceWitness ==
    /\ result.op = "consolidate"
    /\ result.dryRun
    /\ result.clustersFound > 0
    /\ \E c \in 1..Len(result.clusters) :
          /\ {memories[m].importance : m \in SeqToSet(result.clusters[c].members)} = {4, 6}
          /\ Len(result.clusters[c].members) = 2
          /\ result.clusters[c].combinedImportance = 7

\* C27: consolidating a cluster of similar level-2 memories creates a level-3
\* memory.
Level2ClusterGivesLevel3 ==
    [][\A t \in ThresholdChoices :
        /\ ConsolidateStart(1, t, FALSE)
        /\ openaiClient
        /\ \E x, y \in MemIds \cap DOMAIN embeddings :
              /\ x # y
              /\ memories[x].status = "active" /\ memories[x].level = 2
              /\ memories[y].status = "active" /\ memories[y].level = 2
              /\ Sim(x, y) >= t
        => \E i \in DOMAIN memories' : memories'[i].level = 3]_vars

\* a live consolidate returned without clusters on a store that holds two
\* active level-2 memories with the same embedding
Level2LeftAlone ==
    /\ result.op = "consolidate"
    /\ ~result.dryRun
    /\ result.success
    /\ result.clustersFound = 0
    /\ \E x, y \in MemIds \cap DOMAIN embeddings :
          /\ x # y
          /\ memories[x].status = "active" /\ memories[x].level = 2
          /\ memories[y].status = "active" /\ memories[y].level = 2
          /\ Sim(x, y) = SimScale
    /\ \A i \in MemIds : memories[i].level < 3

\* C28: without the embedding collaborator consolidate returns zero clusters
\* with a warning and no error, and changes nothing in the store; a candidate
\* without a stored embedding is in no cluster and stays active.
UnavailableEmbeddings ==
    [][/\ \A t \in ClusterThresholds, dry \in BOOLEAN :
            ConsolidateStart(1, t, dry) =>
                /\ ~openaiClient =>
                      /\ result'.op = "consolidate"
                      /\ result'.clustersFound = 0
                      /\ result'.warnings # {}
                      /\ "error" \notin DOMAIN result'
                      /\ UNCHANGED <<memories, embeddings, relationships, feedbackLog,
                                     nextId, nextRelId, runs>>
                /\ \A c \in 1..Len(ClustersOfStep(1)) :
                      SeqToSet(ClustersOfStep(1)[c].members) \subseteq DOMAIN embeddings
       /\ \A r \in RunIds, v \in {VC, NoVec} :
            ConsolidateResume(r, v) =>
                \A i \in DOMAIN memories :
                    memories[i].status = "active" /\ i \notin DOMAIN embeddings
                        => i \in DOMAIN memories' /\ memories'[i].status = "active"]_vars

\* a live consolidate created an abstraction while a level-1 memory without
\* an embedding stayed active
UnembeddedLeftOut ==
    /\ result.op = "consolidate"
    /\ ~result.dryRun
    /\ result.success
    /\ result.clustersFound > 0
    /\ \E i \in MemIds : /\ memories[i].level = 1
                         /\ memories[i].status = "active"
                         /\ i \notin DOMAIN embeddings

\* the consolidate call failed for want of the embedding collaborator
UnavailableWitness ==
    /\ result.op = "consolidate"
    /\ ~result.success
    /\ result.clustersFound = 0
    /\ result.warnings = {"embeddings-unavailable"}
    /\ ~openaiClient
    /\ \E x, y \in DOMAIN embeddings : x # y /\ Sim(x, y) = SimScale

\* C29: for each source memory of a consolidated cluster a live consolidate
\* creates exactly one derived_from edge from that source to the new
\* abstraction, its strength the average similarity over all pairs of the
\* cluster's members.
DerivedFromPerSource ==
    [][\A r \in RunIds, v \in {VC, NoVec} :
        ConsolidateResume(r, v) =>
            LET members == runs[r].clusters[runs[r].k].members
                pairs == {<<i, j>> \in (1..Len(members)) \X (1..Len(members)) : i < j}
                sims == [pr \in pairs |-> Sim(members[pr[1]], members[pr[2]])]
                total == IF Len(members) = 2 THEN sims[<<1, 2>>]
                         ELSE IF Len(members) = 3
                         THEN sims[<<1, 2>>] + sims[<<1, 3>>] + sims[<<2, 3>>]
                         ELSE sims[<<1, 2>>] + sims[<<1, 3>>] + sims[<<1, 4>>]
                              + sims[<<2, 3>>] + sims[<<2, 4>>] + sims[<<3, 4>>]
                created == relationships' \ relationships
            IN /\ relationships \subseteq relationships'
               /\ Cardinality(created) = Len(members)
               /\ \A m \in SeqToSet(members) :
                    \E e \in created :
                        /\ e.sourceId = m
                        /\ e.targetId = runs[r].newId
                        /\ e.relationship = "derived_from"
                        /\ e.strength = total \div Cardinality(pairs)]_vars

\* three derived_from edges to one abstraction, the strength of each the
\* average 0.626 of the similarities 0.8, 0.8 and 0.28
DerivedFromWitness ==
    \E a \in MemIds :
        /\ memories[a].level = 2
        /\ Cardinality({e \in relationships : /\ e.targetId = a
                                              /\ e.relationship = "derived_from"
                                              /\ e.strength = 626}) = 3

\* C30: a batch decay pass recomputes the score of each active memory once,
\* from the memory's fields before the pass, and changes nothing else: no
\* status, level, importance, counter or parentId changes, and archived and
\* consolidated memories are not touched.
BatchDecayFrame ==
    [][ApplyDecayToAll \/ EvolveDecay(FALSE) =>
        /\ DOMAIN memories' = DOMAIN memories
        /\ \A i \in DOMAIN memories :
              LET m == memories[i]
                  raw == RawScore(m.importance, m.timesHelpful, m.timesUnhelpful,
                                  now - m.accessedAt, m.accessCount)
                  score == IF raw > MaxScore THEN MaxScore
                           ELSE IF raw < MinScore THEN MinScore ELSE raw
              IN IF m.status = "active"
                 THEN memories'[i] = [m EXCEPT !.usefulnessScore = score, !.lastDecay = now]
                 ELSE memories'[i] = m
        /\ UNCHANGED <<embeddings, relationships, feedbackLog, nextId, nextRelId>>]_vars

\* a pass has rescored an active memory and left an archived one as it was
BatchDecayWitness ==
    /\ nextFeedbackId = 1
    /\ \E i, j \in MemIds :
          /\ memories[i].status = "active"
          /\ memories[i].lastDecay = now
          /\ memories[i].usefulnessScore # DefaultScore
          /\ memories[j].status = "archived"
          /\ memories[j].lastDecay = NoDecay
          /\ memories[j].usefulnessScore = DefaultScore

\* what a call of the scorer on memory i stores, from the row after the step's
\* counter updates: the weights 0.5, 0.3, 0.15 and 0.05 and the clamp to [1, 9]
StoredScore(i) ==
    LET m == memories'[i]
        helpfulRatio == ((m.timesHelpful + 1) * Scale) \div (m.timesHelpful + m.timesUnhelpful + 2)
        weights == 500000 + (3 * helpfulRatio) \div 10
                   + (15 * RecencyBoost(now - m.accessedAt)) \div 100
                   + (5 * AccessBoost(m.accessCount)) \div 100
        raw == m.importance * weights
    IN IF raw < 1000000 THEN 1000000 ELSE IF raw > 9000000 THEN 9000000 ELSE raw

DerivedFrom(m) == {e \in relationships : e.sourceId = m /\ e.relationship = "derived_from"}
DerivedInto(a) == {e \in relationships : e.targetId = a /\ e.relationship = "derived_from"}

\* C31: consolidation is atomic per cluster: the step that persists a cluster
\* either consolidates every source memory of it under the new abstraction,
\* each with its derived_from edge, or modifies none of them and adds no edge;
\* when it does not persist the cluster, the call reports the failure.
ClusterAtomic ==
    [][\A r \in RunIds :
        ConsolidateResume(r, VA) =>
            LET members == SeqToSet(runs[r].clusters[runs[r].k].members)
                a == runs[r].newId
                all == \A m \in members :
                          /\ m \in DOMAIN memories'
                          /\ memories'[m].status = "consolidated"
                          /\ memories'[m].parentId = a
                          /\ \E e \in relationships' :
                                /\ e.sourceId = m /\ e.targetId = a
                                /\ e.relationship = "derived_from"
                none == /\ \A m \in members \cap DOMAIN memories :
                              m \in DOMAIN memories' /\ memories'[m] = memories[m]
                        /\ relationships' = relationships
            IN /\ all \/ none
               /\ ~all => result'.op = "consolidate" /\ ~result'.success]_vars

\* a consolidate call failed after it had consolidated one source: the
\* abstraction it names as parent has a single derived_from edge
ClusterHalfApplied ==
    /\ result.op = "consolidate"
    /\ ~result.success
    /\ "error" \in DOMAIN result
    /\ \E m \in MemIds :
          /\ memories[m].status = "consolidated"
          /\ memories[m].parentId \in MemIds
          /\ Cardinality(DerivedInto(memories[m].parentId)) = 1

\* C34: consolidate runs that overlap never consolidate a source memory
\* twice: no memory has derived_from edges to two abstractions, and once no
\* run is in flight every abstraction that has sources is the parent of one.
NoSourceConsolidatedTwice ==
    /\ \A m \in MemIds : Cardinality(DerivedFrom(m)) <= 1
    /\ AllIdle =>
          \A a \in MemIds :
              (\E e \in DerivedInto(a) : e.sourceId \in MemIds)
                  => \E e \in DerivedInto(a) :
                        e.sourceId \in MemIds /\ memories[e.sourceId].parentId = a

\* both runs have returned: two abstractions were derived from the same two
\* sources, and the sources name only the later one as parent
SourcesConsolidatedTwice ==
    /\ AllIdle
    /\ result.op = "consolidate"
    /\ result.success
    /\ \E a, b \in MemIds :
          /\ a # b
          /\ memories[a].level = 2 /\ memories[b].level = 2
          /\ {e.sourceId : e \in DerivedInto(a)} = {e.sourceId : e \in DerivedInto(b)}
          /\ Cardinality(DerivedInto(a)) = 2
          /\ \A e \in DerivedInto(a) :
                e.sourceId \in MemIds /\ memories[e.sourceId].parentId = b

\* C35: consolidate marks as consolidated only a memory that is active and at
\* level 1 at the moment it is marked, whatever ran while the call was
\* suspended; an archived memory never becomes consolidated.
MarksOnlyActiveLevel1 ==
    [][\A r \in RunIds :
        ConsolidateResume(r, VA) =>
            \A m \in DOMAIN memories \cap DOMAIN memories' :
                memories[m].status # "consolidated" /\ memories'[m].status = "consolidated"
                    => memories[m].status = "active" /\ memories[m].level = 1]_vars

\* a prune that ran while consolidate was suspended archived a member of the
\* cluster the call is about to mark
ArchivedBeforeMarked ==
    /\ result.op = "prune"
    /\ ~result.dryRun
    /\ \E r \in RunIds :
          /\ runs[r].pc = "await"
          /\ \E m \in SeqToSet(runs[r].clusters[runs[r].k].members) :
                /\ m \in result.pruned
                /\ m \in MemIds
                /\ memories[m].status = "archived"

\* C36: every similar edge has sourceId < targetId and there is at most one
\* similar edge per unordered pair of memories: no self-edge, no reciprocal
\* edge, no duplicate.
SimilarEdgesCanonical ==
    \A e \in relationships :
        e.relationship = "similar" =>
            /\ e.sourceId < e.targetId
            /\ \A o \in relationships :
                  /\ o.relationship = "similar"
                  /\ {o.sourceId, o.targetId} = {e.sourceId, e.targetId}
                  => o = e

\* the pair of memories 1 and 2 was recorded more than once, and after a decay
\* pass its one edge holds more than a single recording gives
SimilarEdgeWitness ==
    /\ result.op = "decayRelationships"
    /\ \E e \in relationships :
          /\ e.relationship = "similar"
          /\ e.sourceId = 1 /\ e.targetId = 2
          /\ e.strength > DefaultCoAccess
          /\ e.strength < 6 * SimScale
    /\ Cardinality({e \in relationships : e.relationship = "similar"}) = 3

\* C37: giving feedback on a memory changes only its timesHelpful or
\* timesUnhelpful, its usefulnessScore and its lastDecay: accessedAt,
\* accessCount, status, level, importance and parentId stay as they were.
FeedbackFrame ==
    [][\A id \in MemIds, f \in FeedbackTypes :
        Feedback(id, f) =>
            /\ memories'[id].accessedAt = memories[id].accessedAt
            /\ memories'[id].accessCount = memories[id].accessCount
            /\ memories'[id].status = memories[id].status
            /\ memories'[id].level = memories[id].level
            /\ memories'[id].importance = memories[id].importance
            /\ memories'[id].parentId = memories[id].parentId]_vars

\* feedback was recorded on a memory created earlier: the memory now counts
\* as read twice, the last time at the moment of the feedback
FeedbackCountsAsAccess ==
    /\ result.op = "feedback"
    /\ result.feedbackRecorded = 1
    /\ now > 0
    /\ \E f \in feedbackLog :
          /\ f.timestamp = now
          /\ f.memoryId \in MemIds
          /\ memories[f.memoryId].accessedAt = now
          /\ memories[f.memoryId].accessCount = 2

SuggestionCount ==
    [][\A cur \in CurrentChoices, limit \in LimitChoices :
        \A rows \in RowChoices(cur, limit) :
            GetSuggestedMemories(cur, limit, rows) =>
                LET current == SeqToSet(cur)
                    k == Cardinality({x \in MemIds \ current :
                            /\ memories[x].status = "active"
                            /\ \E e \in relationships :
                                  /\ e.relationship = "similar"
                                  /\ \/ e.sourceId = x /\ e.targetId \in current
                                     \/ e.targetId = x /\ e.sourceId \in current})
                IN Len(result'.memories) = (IF limit < k THEN limit ELSE k)]_vars

\* the call returned nothing: its one row was the archived memory with the
\* strongest edge to memory 1, read by the call, while an active memory with a
\* weaker edge to memory 1 was left out
SlotTakenByArchived ==
    /\ result.op = "suggest"
    /\ result.memories = << >>
    /\ now > 0
    /\ \E a, x \in MemIds \ {1, 2} :
          /\ memories[a].status = "archived"
          /\ memories[a].accessedAt = now
          /\ memories[x].status = "active"
          /\ \E e, f \in relationships :
                /\ e.relationship = "similar" /\ e.sourceId = 1 /\ e.targetId = a
                /\ f.relationship = "similar" /\ f.sourceId = 1 /\ f.targetId = x
                /\ e.strength > f.strength

\* C33: after consolidation the source memories are still searchable: a
\* recall whose query matches a consolidated memory, by its keywords or by
\* its embedding, and whose limit is above the number of memories returns it.
ConsolidatedStillSearchable ==
    [][\A q \in VecChoices \cup {NoVec} :
        Recall(q, MemIds, RecallLimit) =>
            \A m \in MemIds :
                /\ memories[m].status = "consolidated"
                /\ \/ q = NoVec
                   \/ /\ m \in DOMAIN embeddings
                      /\ CosineSimilarity(q, embeddings[m]) >= MinSimilarity
                => m \in SeqToSet(result'.memories)]_vars

\* a recall with the default limit whose query matches every memory returned
\* the abstraction and neither of its consolidated sources
SourcesNotRecalled ==
    /\ request.op = "recall"
    /\ request.limit = RecallLimit
    /\ request.all
    /\ result.op = "recall"
    /\ \E a \in SeqToSet(result.memories) :
          /\ memories[a].level = 2
          /\ Cardinality({m \in MemIds : /\ memories[m].status = "consolidated"
                                          /\ memories[m].parentId = a
                                          /\ m \notin SeqToSet(result.memories)}) = 2
====
